---- MODULE Spec2Model ----
(***************************************************************************)
(* Batch operation processors of the stellarspend contracts.               *)
(*                                                                         *)
(* Every contract is deployed as its own instance with its own storage;    *)
(* the contracts never call each other.  A behaviour follows one deployed  *)
(* instance, selected by `contract`, through a sequence of invocations.    *)
(* An invocation that panics is rolled back by the host: storage, token    *)
(* balances and events are those of before the call.                       *)
(*                                                                         *)
(* i128 amounts are modelled on a reduced scale (integers here are 32 bits *)
(* wide): the order 0 < MIN_GOAL_AMOUNT < HIGH_VALUE_GOAL <                *)
(* MAX_GOAL_AMOUNT and MAX_BATCH_SIZE * MAX_GOAL_AMOUNT < I128_MAX of the  *)
(* source is kept.                                                         *)
(***************************************************************************)
EXTENDS Integers, Sequences, FiniteSets, TLC

\* ------------------------------------------------------------------ bounds
MaxLen == 2          \* longest enumerated short batch
MaxBatches == 2      \* accepted batch calls per behaviour
MaxLedger == 1       \* ledger sequence numbers 0..MaxLedger

\* ------------------------------------------------------- program constants
MAX_BATCH_SIZE == 100
MIN_GOAL_AMOUNT == 10
\* mutation: a largest amount of which 100 exceed I128_MAX
MAX_GOAL_AMOUNT_large == 2000000 * MIN_GOAL_AMOUNT
MAX_GOAL_AMOUNT == 1000000
HIGH_VALUE_GOAL == 1000
MAX_FUTURE_LEDGERS == 31536000
I128_MAX == 1073741823
I128_MIN == -1073741824

\* ---------------------------------------------------------------- universe
Contracts == {"transfer", "conversion", "goals", "budget", "notify", "history",
              "wallet", "payment", "recommend"}
Addr == {"a1", "a2"}
Assets == {"x", "y", "z"}
\* the accounts that authorised an invocation: none of them, or all
Signers == {{}, Addr}

VARIABLES
  contract,    \* the deployed contract this instance runs
  instance,    \* env.storage().instance(): DataKey -> value
  goals,       \* env.storage().persistent(), DataKey::Goal(id)
  user_goals,  \* env.storage().persistent(), DataKey::UserGoals(user)
  budgets,     \* env.storage().persistent(), DataKey::Budget(user)
  wallets,     \* env.storage().persistent(), DataKey::Wallets(owner)
  recommendations, \* env.storage().persistent(), the results of each batch
  balance,     \* host token ledger: <<account, token>> -> balance
  sequence,    \* env.ledger().sequence()
  events,      \* events published by the last invocation
  call,        \* the last invocation: operation, arguments, outcome
  hist,        \* history of the accepted batch calls
  trace        \* host calls the last invocation made, in program order

vars == <<contract, instance, goals, user_goals, budgets, wallets,
          recommendations, balance, sequence, events, call, hist, trace>>

storage == <<instance, goals, user_goals, budgets, wallets, recommendations,
             balance>>

\* ----------------------------------------------------------- host storage
Has(store, key) == key \in DOMAIN store

GetOr(store, key, dflt) == IF key \in DOMAIN store THEN store[key] ELSE dflt

Set(store, key, val) ==
  IF key \in DOMAIN store THEN [store EXCEPT ![key] = val]
  ELSE store @@ (key :> val)

EmptyStore == [k \in {} |-> 0]

Ev(topics, data) == [topics |-> topics, data |-> data]

\* the host calls other than event publication, as `trace` records them:
\* `at` is the number of events the invocation had published before the call
\* address.require_auth()
Auth(address, at) == [kind |-> "require_auth", key |-> address, val |-> 0, at |-> at]

\* env.storage().instance().set(key, val)
InstanceSet(key, val, at) == [kind |-> "instance", key |-> key, val |-> val, at |-> at]

\* env.storage().persistent().set(key, val)
PersistentSet(key, val, at) == [kind |-> "persistent", key |-> key, val |-> val, at |-> at]

\* token_client.transfer(from, to, amount)
TokenTransfer(from, to, amount, at) ==
  [kind |-> "transfer", key |-> <<from, to>>, val |-> amount, at |-> at]

\* the storage after the writes of a trace segment, applied in order
RECURSIVE ApplySets(_, _)
ApplySets(store, writes) ==
  IF writes = <<>> THEN store
  ELSE ApplySets(Set(store, Head(writes).key, Head(writes).val), Tail(writes))

\* mutation: on overflow the left operand is kept, whatever the default
CheckedAddOr_keep_left(a, b, dflt) ==
  IF a + b >= I128_MIN /\ a + b <= I128_MAX THEN a + b ELSE a

\* i128::checked_add(a, b).unwrap_or(dflt)
CheckedAddOr(a, b, dflt) ==
  IF a + b >= I128_MIN /\ a + b <= I128_MAX THEN a + b ELSE dflt

\* `for i in lo..=hi { st = body(i, st) }`: the iterations run in index
\* order, each on the locals the previous one left.  The range is halved and
\* the first half is evaluated (first = first) before the second half starts,
\* only to keep the evaluation shallow
RECURSIVE ForEach(_, _, _, _)
ForEach(body(_, _), lo, hi, st) ==
  IF lo > hi THEN st
  ELSE IF lo = hi THEN body(lo, st)
  ELSE LET mid == (lo + hi) \div 2
           first == ForEach(body, lo, mid, st)
       IN IF first = first THEN ForEach(body, mid + 1, hi, first) ELSE first

\* [item, item, ..., item] of length n
Repeat(item, n) == [i \in 1..n |-> item]

\* all sequences over S of length 0..n
RECURSIVE SeqsUpTo(_, _)
SeqsUpTo(S, n) ==
  IF n = 0 THEN {<<>>}
  ELSE LET shorter == SeqsUpTo(S, n - 1)
       IN shorter \cup {Append(s, x) : s \in {t \in shorter : Len(t) = n - 1}, x \in S}

\* the batches submitted: every short batch, and batches at and just over
\* the size limit
Batches(S, x) ==
  SeqsUpTo(S, MaxLen) \cup {Repeat(x, MAX_BATCH_SIZE), Repeat(x, MAX_BATCH_SIZE + 1)}

NoCall == [op |-> "none", caller |-> "none", signers |-> {}, items |-> <<>>,
           status |-> "none", error |-> "none", result |-> <<>>]

\* the invocation panicked: the host discards its writes and its events
Panicked(op, caller, signers, items, error) ==
  /\ call' = [op |-> op, caller |-> caller, signers |-> signers,
              items |-> items, status |-> "panic", error |-> error,
              result |-> <<>>]
  /\ events' = <<>>
  /\ trace' = <<>>
  /\ UNCHANGED <<contract, storage, sequence, hist>>

Returned(op, caller, signers, items, result) ==
  call' = [op |-> op, caller |-> caller, signers |-> signers,
           items |-> items, status |-> "ok", error |-> "none",
           result |-> result]

NoHist == [ids |-> <<>>, requests |-> 0, successes |-> 0]

Accepted(batch_id, request_count, successful_count) ==
  hist' = [ids |-> Append(hist.ids, batch_id),
           requests |-> hist.requests + request_count,
           successes |-> hist.successes + successful_count]

\* token balances at deployment: a1 holds 3 x and nearly all the z an i128
\* can count, a2 holds 1 x
InitBalance ==
  [k \in Addr \X Assets |->
     CASE k[2] = "x" -> IF k[1] = "a1" THEN 3 ELSE 1
       [] k[2] = "y" -> 0
       [] k[2] = "z" -> IF k[1] = "a1" THEN I128_MAX - 1 ELSE 0]

Init ==
  /\ contract \in Contracts
  /\ instance = EmptyStore
  /\ goals = EmptyStore
  /\ user_goals = EmptyStore
  /\ budgets = EmptyStore
  /\ wallets = EmptyStore
  /\ recommendations = EmptyStore
  /\ balance = InitBalance
  /\ sequence = 0
  /\ events = <<>>
  /\ call = NoCall
  /\ hist = NoHist
  /\ trace = <<>>

\* ============================================ preconditions and batch ids
\* mutation: the size limit excludes a batch of exactly MAX_BATCH_SIZE
validate_batch_size_exclusive(request_count) ==
  IF request_count = 0 THEN "EmptyBatch"
  ELSE IF request_count >= MAX_BATCH_SIZE THEN "BatchTooLarge"
  ELSE "ok"

\* "ok", or the error the batch size check panics with
validate_batch_size(request_count) ==
  IF request_count = 0 THEN "EmptyBatch"
  ELSE IF request_count > MAX_BATCH_SIZE THEN "BatchTooLarge"
  ELSE "ok"

\* mutation: initialize does not look for an existing admin
already_initialized_unchecked == FALSE

\* env.storage().instance().has(&DataKey::Admin)
already_initialized == Has(instance, "Admin")

\* mutation: require_admin only checks that the contract is initialized
require_admin_unchecked(caller) ==
  IF ~Has(instance, "Admin") THEN "Contract not initialized"
  ELSE "ok"

\* mutation: require_admin compares with == instead of !=
require_admin_inverted(caller) ==
  IF ~Has(instance, "Admin") THEN "Contract not initialized"
  ELSE IF caller = instance["Admin"] THEN "Unauthorized"
  ELSE "ok"

\* "ok", or the reason require_admin panics with
require_admin(caller) ==
  IF ~Has(instance, "Admin") THEN "Contract not initialized"
  ELSE IF caller # instance["Admin"] THEN "Unauthorized"
  ELSE "ok"

\* mutation: the batch id is the stored counter, not its successor
next_batch_id_stale(key) == GetOr(instance, key, 0)

\* the batch id a batch call allocates: the stored counter plus one
next_batch_id(key) == GetOr(instance, key, 0) + 1

\* ========================================================= batch-transfer
TransferRequests ==
  { [recipient |-> "a2", amount |-> 2],
    [recipient |-> "a2", amount |-> 1],
    [recipient |-> "a1", amount |-> 0] }

TransferLong == [recipient |-> "a2", amount |-> 1]

transfer_initialize ==
  /\ contract = "transfer"
  /\ \E admin \in Addr :
       IF already_initialized
       THEN Panicked("initialize", admin, {}, <<>>, "Contract already initialized")
       ELSE \E writes \in {<<InstanceSet("Admin", admin, 0),
                   InstanceSet("TotalBatches", 0, 0),
                   InstanceSet("TotalTransfersProcessed", 0, 0),
                   InstanceSet("TotalVolumeTransferred", 0, 0)>>} :
            /\ instance' = ApplySets(instance, writes)
            /\ trace' = writes
            /\ Returned("initialize", admin, {}, <<>>, <<>>)
            /\ events' = <<>>
            /\ UNCHANGED <<contract, recommendations, wallets, goals, user_goals, budgets, balance,
                           sequence, hist>>

transfer_validate_address(address) == TRUE

transfer_validate_amount(amount) == amount > 0

\* first pass: (request, is_valid, error_code) per request, in input order
transfer_validated(transfers) ==
  [i \in 1..Len(transfers) |->
     LET request == transfers[i] IN
     IF ~transfer_validate_address(request.recipient)
     THEN [request |-> request, is_valid |-> FALSE, error_code |-> 0]
     ELSE IF ~transfer_validate_amount(request.amount)
     THEN [request |-> request, is_valid |-> FALSE, error_code |-> 1]
     ELSE [request |-> request, is_valid |-> TRUE, error_code |-> 0]]

\* token_client.transfer(from, to, amount)
token_transfer(bal, token, from, to, amount) ==
  LET debited == [bal EXCEPT ![<<from, token>>] = @ - amount]
  IN [debited EXCEPT ![<<to, token>>] = @ + amount]

\* mutation: a failed transfer is recorded but not counted
transfer_failure_uncounted(request, batch_id, error_code, st) ==
  [st EXCEPT
     !.results = Append(@, [tag |-> "Failure",
         recipient |-> request.recipient,
         amount |-> request.amount,
         error_code |-> error_code]),
     !.events = Append(@, Ev(<<"transfer", "failure", batch_id>>,
         <<request.recipient, request.amount, error_code>>))]

\* a request recorded as TransferResult::Failure, with its event
transfer_failure(request, batch_id, error_code, st) ==
  [st EXCEPT
     !.results = Append(@, [tag |-> "Failure",
         recipient |-> request.recipient,
         amount |-> request.amount,
         error_code |-> error_code]),
     !.failed_count = @ + 1,
     !.events = Append(@, Ev(<<"transfer", "failure", batch_id>>,
         <<request.recipient, request.amount, error_code>>))]

\* a request executed and recorded as TransferResult::Success, with its event
\* mutation: a success does not reduce the running balance
transfer_success_no_debit(request, batch_id, caller, token, st) ==
  [st EXCEPT
     !.balance = token_transfer(@, token, caller,
         request.recipient, request.amount),
     !.trace = Append(@, TokenTransfer(caller, request.recipient,
         request.amount, Len(st.events))),
     !.results = Append(@, [tag |-> "Success",
         recipient |-> request.recipient,
         amount |-> request.amount,
         error_code |-> 0]),
     !.successful_count = @ + 1,
     !.total_transferred = CheckedAddOr(@, request.amount, @),
     !.events = Append(@, Ev(<<"transfer", "success", batch_id>>,
         <<request.recipient, request.amount>>))]

transfer_success(request, batch_id, caller, token, st) ==
  [st EXCEPT
     !.balance = token_transfer(@, token, caller,
         request.recipient, request.amount),
     !.trace = Append(@, TokenTransfer(caller, request.recipient,
         request.amount, Len(st.events))),
     !.available_balance = @ - request.amount,
     !.results = Append(@, [tag |-> "Success",
         recipient |-> request.recipient,
         amount |-> request.amount,
         error_code |-> 0]),
     !.successful_count = @ + 1,
     !.total_transferred = CheckedAddOr(@, request.amount, @),
     !.events = Append(@, Ev(<<"transfer", "success", batch_id>>,
         <<request.recipient, request.amount>>))]

\* second pass, one iteration: st carries the loop's locals.  The token is a
\* contract of its own: host_rejects says whether it refuses the transfer of
\* this request, in which case token_client.transfer panics and the loop ends
\* (st.rejected_at is the number of the request, 0 while nothing is refused)
transfer_second_pass(i, v, host_rejects, batch_id, caller, token, st) ==
  IF st.rejected_at # 0
  THEN st
  ELSE IF ~v.is_valid
  THEN transfer_failure(v.request, batch_id, v.error_code, st)
  ELSE IF st.available_balance < v.request.amount
  THEN transfer_failure(v.request, batch_id, 2, st)
  ELSE IF host_rejects
  THEN [st EXCEPT !.rejected_at = i]
  ELSE transfer_success(v.request, batch_id, caller, token, st)

\* the locals of batch_transfer after both passes; rejected is the number of
\* the request whose transfer the token refuses, 0 for none
transfer_run(bal, batch_id, caller, token, transfers, rejected) ==
  LET validated == transfer_validated(transfers)
      body(i, st) == transfer_second_pass(i, validated[i], i = rejected,
                                          batch_id, caller, token, st)
  IN
  ForEach(body, 1, Len(transfers),
    [balance |-> bal,
     available_balance |-> bal[<<caller, token>>],
     results |-> <<>>,
     successful_count |-> 0,
     failed_count |-> 0,
     total_transferred |-> 0,
     rejected_at |-> 0,
     events |-> <<Ev(<<"batch", "started">>, <<batch_id, Len(transfers)>>)>>,
     trace |-> <<Auth(caller, 0)>>])

\* the error of an invocation that ended in the token's panic at request i
HostRejected(i) == "token transfer rejected at request " \o ToString(i)

HostRejections == {HostRejected(i) : i \in 1..MaxLen}

\* the refusals tried for a batch: none, or that of its last request (the
\* loop ends at a refusal, so a refusal at request i of a longer batch is the
\* refusal at the last request of its first i requests)
RejectedAt(transfers) ==
  IF Len(transfers) \in 1..MaxLen THEN {0, Len(transfers)} ELSE {0}

\* mutation: the token's refusal ends the call but what the earlier requests
\* did stays
transfer_rejected_partial(op, caller, signers, transfers, st) ==
  /\ call' = [op |-> op, caller |-> caller, signers |-> signers,
              items |-> transfers, status |-> "panic",
              error |-> HostRejected(st.rejected_at), result |-> <<>>]
  /\ balance' = st.balance
  /\ events' = st.events
  /\ trace' = st.trace
  /\ UNCHANGED <<contract, recommendations, instance, goals, user_goals, budgets, wallets,
                 sequence, hist>>

\* mutation: only the successful requests are counted as processed
items_processed_successes_only(request_count, st) == st.successful_count

\* what a batch adds to the processed counter: `request_count as u64`, the
\* failed requests with the successful ones
items_processed(request_count, st) == request_count

\* token_client.transfer panicked inside batch_transfer: the panic is not
\* caught, so it ends the invocation
transfer_rejected(op, caller, signers, transfers, st) ==
  Panicked(op, caller, signers, transfers, HostRejected(st.rejected_at))

batch_transfer ==
  /\ contract = "transfer"
  /\ Len(hist.ids) < MaxBatches
  /\ \E caller \in Addr, signers \in Signers, token \in {"x"},
        transfers \in Batches(TransferRequests, TransferLong) :
     \E rejected \in RejectedAt(transfers) :
       LET op == "batch_transfer"
           request_count == Len(transfers)
       IN
       IF caller \notin signers
       THEN Panicked(op, caller, signers, transfers, "require_auth")
       ELSE IF require_admin(caller) # "ok"
       THEN Panicked(op, caller, signers, transfers, require_admin(caller))
       ELSE IF validate_batch_size(request_count) # "ok"
       THEN Panicked(op, caller, signers, transfers, validate_batch_size(request_count))
       ELSE
         LET batch_id == next_batch_id("TotalBatches")
         IN \E st \in {transfer_run(balance, batch_id, caller, token, transfers,
                                     rejected)} :
         IF st.rejected_at # 0
         THEN transfer_rejected(op, caller, signers, transfers, st)
         ELSE
         LET total_batches == GetOr(instance, "TotalBatches", 0)
             total_processed == GetOr(instance, "TotalTransfersProcessed", 0)
             total_volume == GetOr(instance, "TotalVolumeTransferred", 0)
             at == Len(st.events)
             writes ==
               <<InstanceSet("TotalBatches", total_batches + 1, at),
                 InstanceSet("TotalTransfersProcessed",
                             total_processed + items_processed(request_count, st),
                             at),
                 InstanceSet("TotalVolumeTransferred",
                             CheckedAddOr(st.total_transferred, total_volume, I128_MAX),
                             at)>>
         IN
         /\ balance' = st.balance
         /\ instance' = ApplySets(instance, writes)
         /\ trace' = st.trace \o writes
         /\ events' = Append(st.events,
              Ev(<<"batch", "completed", batch_id>>,
                 <<st.successful_count, st.failed_count, st.total_transferred>>))
         /\ Returned(op, caller, signers, transfers,
              [batch_id |-> batch_id,
               total_requests |-> request_count,
               successful |-> st.successful_count,
               failed |-> st.failed_count,
               total |-> st.total_transferred,
               results |-> st.results])
         /\ Accepted(batch_id, request_count, st.successful_count)
         /\ UNCHANGED <<contract, recommendations, wallets, goals, user_goals, budgets, sequence>>

transfer_set_admin ==
  /\ contract = "transfer"
  /\ \E current_admin \in Addr, new_admin \in Addr, signers \in Signers :
       LET op == "set_admin" IN
       IF current_admin \notin signers
       THEN Panicked(op, current_admin, signers, <<new_admin>>, "require_auth")
       ELSE IF require_admin(current_admin) # "ok"
       THEN Panicked(op, current_admin, signers, <<new_admin>>,
                     require_admin(current_admin))
       ELSE /\ instance' = Set(instance, "Admin", new_admin)
            /\ trace' = <<Auth(current_admin, 0), InstanceSet("Admin", new_admin, 0)>>
            /\ Returned(op, current_admin, signers, <<new_admin>>, <<>>)
            /\ events' = <<>>
            /\ UNCHANGED <<contract, recommendations, wallets, goals, user_goals, budgets, balance,
                           sequence, hist>>

\* ====================================================== batch-conversion
\* a1 converts all its z, a2 more x than it holds, and a malformed request
ConversionRequests ==
  { [user |-> "a1", from_asset |-> "z", to_asset |-> "y",
     amount_in |-> I128_MAX - 1, min_amount_out |-> 1],
    [user |-> "a2", from_asset |-> "x", to_asset |-> "y",
     amount_in |-> 2, min_amount_out |-> 1],
    [user |-> "a1", from_asset |-> "x", to_asset |-> "x",
     amount_in |-> 0, min_amount_out |-> 0] }

ConversionLong ==
  [user |-> "a1", from_asset |-> "x", to_asset |-> "y",
   amount_in |-> 1, min_amount_out |-> 1]

conversion_initialize ==
  /\ contract = "conversion"
  /\ \E admin \in Addr :
       IF already_initialized
       THEN Panicked("initialize", admin, {}, <<>>, "Contract already initialized")
       ELSE \E writes \in {<<InstanceSet("Admin", admin, 0),
                   InstanceSet("TotalBatches", 0, 0),
                   InstanceSet("TotalConversionsProcessed", 0, 0),
                   InstanceSet("TotalVolumeConverted", 0, 0)>>} :
            /\ instance' = ApplySets(instance, writes)
            /\ trace' = writes
            /\ Returned("initialize", admin, {}, <<>>, <<>>)
            /\ events' = <<>>
            /\ UNCHANGED <<contract, recommendations, wallets, goals, user_goals, budgets, balance,
                           sequence, hist>>

validate_address(address) == TRUE

validate_amount(amount) == ~(amount <= 0)

validate_min_output(min_amount_out) == ~(min_amount_out <= 0)

validate_asset_pair(from_asset, to_asset) == ~(from_asset = to_asset)

\* mutation: the asset pair is checked before the two amounts
conversion_validated_pair_first(conversions) ==
  [i \in 1..Len(conversions) |->
     LET request == conversions[i] IN
     IF ~validate_asset_pair(request.from_asset, request.to_asset)
     THEN [request |-> request, is_valid |-> FALSE, error_code |-> 5]
     ELSE IF ~validate_amount(request.amount_in)
     THEN [request |-> request, is_valid |-> FALSE, error_code |-> 3]
     ELSE IF ~validate_min_output(request.min_amount_out)
     THEN [request |-> request, is_valid |-> FALSE, error_code |-> 4]
     ELSE [request |-> request, is_valid |-> TRUE, error_code |-> 0]]

\* first pass: (request, is_valid, error_code) per request, in input order
conversion_validated(conversions) ==
  [i \in 1..Len(conversions) |->
     LET request == conversions[i] IN
     IF ~validate_address(request.user)
     THEN [request |-> request, is_valid |-> FALSE, error_code |-> 0]
     ELSE IF ~validate_address(request.from_asset)
     THEN [request |-> request, is_valid |-> FALSE, error_code |-> 1]
     ELSE IF ~validate_address(request.to_asset)
     THEN [request |-> request, is_valid |-> FALSE, error_code |-> 2]
     ELSE IF ~validate_amount(request.amount_in)
     THEN [request |-> request, is_valid |-> FALSE, error_code |-> 3]
     ELSE IF ~validate_min_output(request.min_amount_out)
     THEN [request |-> request, is_valid |-> FALSE, error_code |-> 4]
     ELSE IF ~validate_asset_pair(request.from_asset, request.to_asset)
     THEN [request |-> request, is_valid |-> FALSE, error_code |-> 5]
     ELSE [request |-> request, is_valid |-> TRUE, error_code |-> 0]]

\* mutation: an insufficient balance panics in place of returning Err(6)
execute_conversion_fatal(bal, signers, request) ==
  LET user_balance == bal[<<request.user, request.from_asset>>] IN
  IF user_balance < request.amount_in
  THEN [tag |-> "Panic", value |-> 6, auth |-> <<>>]
  ELSE IF request.user \notin signers
  THEN [tag |-> "Panic", value |-> 0, auth |-> <<request.user>>]
  ELSE [tag |-> "Ok", value |-> request.min_amount_out, auth |-> <<request.user>>]

\* Ok(amount_out), Err(error_code), or a panic of request.user.require_auth()
execute_conversion(bal, signers, request) ==
  LET user_balance == bal[<<request.user, request.from_asset>>] IN
  IF user_balance < request.amount_in
  THEN [tag |-> "Err", value |-> 6, auth |-> <<>>]
  ELSE IF request.user \notin signers
  THEN [tag |-> "Panic", value |-> 0, auth |-> <<request.user>>]
  ELSE [tag |-> "Ok", value |-> request.min_amount_out, auth |-> <<request.user>>]

\* mutation: the result echoes min_amount_out in place of amount_in
ConversionOutcome_min_out(tag, request, last) ==
  [tag |-> tag, user |-> request.user, from_asset |-> request.from_asset,
   to_asset |-> request.to_asset, amount |-> request.min_amount_out, last |-> last]

\* ConversionResult::Success(user, from, to, amount_in, amount_out) and
\* ConversionResult::Failure(user, from, to, amount_in, error_code)
ConversionOutcome(tag, request, last) ==
  [tag |-> tag, user |-> request.user, from_asset |-> request.from_asset,
   to_asset |-> request.to_asset, amount |-> request.amount_in, last |-> last]

\* mutation: a failed conversion still adds its amount to the batch total
conversion_failure_summed(request, batch_id, error_code, st) ==
  [st EXCEPT
     !.results = Append(@, ConversionOutcome("Failure", request, error_code)),
     !.failed_count = @ + 1,
     !.total_converted = CheckedAddOr(@, request.amount_in, @),
     !.events = Append(@, Ev(<<"convert", "failure", batch_id>>,
         <<request.user, request.from_asset, request.to_asset,
           request.amount_in, error_code>>))]

\* a request recorded as ConversionResult::Failure, with its event
conversion_failure(request, batch_id, error_code, st) ==
  [st EXCEPT
     !.results = Append(@, ConversionOutcome("Failure", request, error_code)),
     !.failed_count = @ + 1,
     !.events = Append(@, Ev(<<"convert", "failure", batch_id>>,
         <<request.user, request.from_asset, request.to_asset,
           request.amount_in, error_code>>))]

\* a request recorded as ConversionResult::Success, with its event
conversion_success(request, batch_id, amount_out, st) ==
  [st EXCEPT
     !.results = Append(@, ConversionOutcome("Success", request, amount_out)),
     !.successful_count = @ + 1,
     !.total_converted = CheckedAddOr(@, request.amount_in, @),
     !.events = Append(@, Ev(<<"convert", "success", batch_id>>,
         <<request.user, request.from_asset, request.to_asset,
           request.amount_in, amount_out>>))]

\* second pass, one iteration: st carries the loop's locals; once an
\* iteration has panicked the call is lost and the rest does not run
conversion_second_pass(v, batch_id, bal, signers, st) ==
  LET executed == execute_conversion(bal, signers, v.request)
      called == [st EXCEPT !.trace =
                   @ \o [k \in 1..Len(executed.auth) |->
                           Auth(executed.auth[k], Len(st.events))]]
  IN
  IF st.panicked THEN st
  ELSE IF ~v.is_valid
  THEN conversion_failure(v.request, batch_id, v.error_code, st)
  ELSE IF executed.tag = "Panic" THEN [called EXCEPT !.panicked = TRUE]
  ELSE IF executed.tag = "Ok"
  THEN conversion_success(v.request, batch_id, executed.value, called)
  ELSE conversion_failure(v.request, batch_id, executed.value, called)

\* the locals of batch_convert_currency after both passes
conversion_run(bal, batch_id, signers, conversions) ==
  LET validated == conversion_validated(conversions)
      body(i, st) == conversion_second_pass(validated[i], batch_id, bal, signers, st)
  IN
  ForEach(body, 1, Len(conversions),
    [panicked |-> FALSE,
     results |-> <<>>,
     successful_count |-> 0,
     failed_count |-> 0,
     total_converted |-> 0,
     events |-> <<Ev(<<"batch", "started">>, <<batch_id, Len(conversions)>>)>>,
     trace |-> <<>>])

batch_convert_currency ==
  /\ contract = "conversion"
  /\ Len(hist.ids) < MaxBatches
  /\ \E signers \in Signers,
        conversions \in Batches(ConversionRequests, ConversionLong) :
       LET op == "batch_convert_currency"
           request_count == Len(conversions)
       IN
       IF validate_batch_size(request_count) # "ok"
       THEN Panicked(op, "none", signers, conversions, validate_batch_size(request_count))
       ELSE
         LET batch_id == next_batch_id("TotalBatches")
         IN \E st \in {conversion_run(balance, batch_id, signers, conversions)} :
         LET total_batches == GetOr(instance, "TotalBatches", 0)
             total_processed == GetOr(instance, "TotalConversionsProcessed", 0)
             total_volume == GetOr(instance, "TotalVolumeConverted", 0)
             at == Len(st.events)
             writes ==
               <<InstanceSet("TotalBatches", total_batches + 1, at),
                 InstanceSet("TotalConversionsProcessed",
                             total_processed + items_processed(request_count, st),
                             at),
                 InstanceSet("TotalVolumeConverted",
                             CheckedAddOr(st.total_converted, total_volume, I128_MAX),
                             at)>>
         IN
         IF st.panicked
         THEN Panicked(op, "none", signers, conversions, "require_auth")
         ELSE
         /\ instance' = ApplySets(instance, writes)
         /\ trace' = st.trace \o writes
         /\ events' = Append(st.events,
              Ev(<<"batch", "completed", batch_id>>,
                 <<st.successful_count, st.failed_count, st.total_converted>>))
         /\ Returned(op, "none", signers, conversions,
              [batch_id |-> batch_id,
               total_requests |-> request_count,
               successful |-> st.successful_count,
               failed |-> st.failed_count,
               total |-> st.total_converted,
               results |-> st.results])
         /\ Accepted(batch_id, request_count, st.successful_count)
         /\ UNCHANGED <<contract, recommendations, wallets, goals, user_goals,
                        budgets, balance, sequence>>

get_total_batches == GetOr(instance, "TotalBatches", 0)

get_total_transfers_processed == GetOr(instance, "TotalTransfersProcessed", 0)

get_total_conversions_processed ==
  GetOr(instance, "TotalConversionsProcessed", 0)

\* ========================================================== savings-goals
GoalRequests ==
  { [user |-> "a1", goal_name |-> "vacation", target_amount |-> HIGH_VALUE_GOAL,
     deadline |-> 1, initial_contribution |-> 10],
    [user |-> "a2", goal_name |-> "house", target_amount |-> MIN_GOAL_AMOUNT - 1,
     deadline |-> 2, initial_contribution |-> 10] }

GoalLong ==
  [user |-> "a2", goal_name |-> "house", target_amount |-> MIN_GOAL_AMOUNT,
   deadline |-> MaxLedger + 1, initial_contribution |-> 0]

INVALID_AMOUNT == 0
INVALID_DEADLINE == 1
INVALID_INITIAL_CONTRIBUTION == 2
INVALID_GOAL_NAME == 3
INVALID_USER_ADDRESS == 4

goals_initialize ==
  /\ contract = "goals"
  /\ \E admin \in Addr :
       IF already_initialized
       THEN Panicked("initialize", admin, {}, <<>>, "Contract already initialized")
       ELSE \E writes \in {<<InstanceSet("Admin", admin, 0),
                   InstanceSet("LastBatchId", 0, 0),
                   InstanceSet("LastGoalId", 0, 0),
                   InstanceSet("TotalGoalsCreated", 0, 0),
                   InstanceSet("TotalBatchesProcessed", 0, 0)>>} :
            /\ instance' = ApplySets(instance, writes)
            /\ trace' = writes
            /\ Returned("initialize", admin, {}, <<>>, <<>>)
            /\ events' = <<>>
            /\ UNCHANGED <<contract, recommendations, wallets, goals, user_goals, budgets, balance,
                           sequence, hist>>

is_valid_address(address) == TRUE

is_valid_amount(amount) == amount >= MIN_GOAL_AMOUNT /\ amount <= MAX_GOAL_AMOUNT

\* mutation: a deadline at the current ledger is accepted
is_valid_deadline_inclusive(current_ledger, deadline) ==
  IF deadline < current_ledger THEN FALSE
  ELSE IF deadline > current_ledger + MAX_FUTURE_LEDGERS THEN FALSE
  ELSE TRUE

is_valid_deadline(current_ledger, deadline) ==
  IF deadline <= current_ledger THEN FALSE
  ELSE IF deadline > current_ledger + MAX_FUTURE_LEDGERS THEN FALSE
  ELSE TRUE

is_valid_initial_contribution(initial_contribution, target_amount) ==
  IF initial_contribution < 0 THEN FALSE
  ELSE IF initial_contribution > target_amount THEN FALSE
  ELSE TRUE

\* mutation: the deadline is checked before the target amount
validate_goal_request_deadline_first(current_ledger, request) ==
  IF ~is_valid_address(request.user)
  THEN [ok |-> FALSE, error_code |-> INVALID_USER_ADDRESS]
  ELSE IF ~is_valid_deadline(current_ledger, request.deadline)
  THEN [ok |-> FALSE, error_code |-> INVALID_DEADLINE]
  ELSE IF ~is_valid_amount(request.target_amount)
  THEN [ok |-> FALSE, error_code |-> INVALID_AMOUNT]
  ELSE IF ~is_valid_initial_contribution(request.initial_contribution,
                                         request.target_amount)
  THEN [ok |-> FALSE, error_code |-> INVALID_INITIAL_CONTRIBUTION]
  ELSE [ok |-> TRUE, error_code |-> 0]

\* Ok, or Err(error_code)
validate_goal_request(current_ledger, request) ==
  IF ~is_valid_address(request.user)
  THEN [ok |-> FALSE, error_code |-> INVALID_USER_ADDRESS]
  ELSE IF ~is_valid_amount(request.target_amount)
  THEN [ok |-> FALSE, error_code |-> INVALID_AMOUNT]
  ELSE IF ~is_valid_deadline(current_ledger, request.deadline)
  THEN [ok |-> FALSE, error_code |-> INVALID_DEADLINE]
  ELSE IF ~is_valid_initial_contribution(request.initial_contribution,
                                         request.target_amount)
  THEN [ok |-> FALSE, error_code |-> INVALID_INITIAL_CONTRIBUTION]
  ELSE [ok |-> TRUE, error_code |-> 0]

\* mutation: the Ok arm also persists the goal id counter, once per goal
goals_create_persisting_id(request, batch_id, current_ledger, st) ==
  LET goal_id_counter == st.goal_id_counter + 1
      goal == [goal_id |-> goal_id_counter,
               user |-> request.user,
               goal_name |-> request.goal_name,
               target_amount |-> request.target_amount,
               current_amount |-> request.initial_contribution,
               deadline |-> request.deadline,
               created_at |-> current_ledger,
               is_active |-> TRUE]
      listed == Append(GetOr(st.user_goals, request.user, <<>>), goal_id_counter)
      created == Ev(<<"goal", "created", batch_id>>,
                    <<goal.goal_id, goal.user, goal.target_amount>>)
      highval == Ev(<<"goal", "highval", batch_id>>,
                    <<goal_id_counter, request.target_amount>>)
  IN [st EXCEPT
        !.goal_id_counter = goal_id_counter,
        !.total_target_amount =
            CheckedAddOr(@, request.target_amount, I128_MAX),
        !.total_initial_contributions =
            CheckedAddOr(@, request.initial_contribution, I128_MAX),
        !.successful_count = @ + 1,
        !.goals = Set(@, goal_id_counter, goal),
        !.user_goals = Set(@, request.user, listed),
        !.trace = @ \o <<PersistentSet(<<"Goal", goal_id_counter>>, goal,
                                        Len(st.events)),
                         PersistentSet(<<"UserGoals", request.user>>, listed,
                                        Len(st.events)),
                         InstanceSet("LastGoalId", goal_id_counter,
                                     Len(st.events))>>,
        !.events = IF request.target_amount >= HIGH_VALUE_GOAL
                   THEN Append(Append(@, created), highval)
                   ELSE Append(@, created),
        !.results = Append(@, [tag |-> "Success", goal |-> goal])]

\* mutation: a goal of exactly the threshold is not reported as high value
goals_create_highval_above(request, batch_id, current_ledger, st) ==
  LET goal_id_counter == st.goal_id_counter + 1
      goal == [goal_id |-> goal_id_counter,
               user |-> request.user,
               goal_name |-> request.goal_name,
               target_amount |-> request.target_amount,
               current_amount |-> request.initial_contribution,
               deadline |-> request.deadline,
               created_at |-> current_ledger,
               is_active |-> TRUE]
      listed == Append(GetOr(st.user_goals, request.user, <<>>), goal_id_counter)
      created == Ev(<<"goal", "created", batch_id>>,
                    <<goal.goal_id, goal.user, goal.target_amount>>)
      highval == Ev(<<"goal", "highval", batch_id>>,
                    <<goal_id_counter, request.target_amount>>)
  IN [st EXCEPT
        !.goal_id_counter = goal_id_counter,
        !.total_target_amount =
            CheckedAddOr(@, request.target_amount, I128_MAX),
        !.total_initial_contributions =
            CheckedAddOr(@, request.initial_contribution, I128_MAX),
        !.successful_count = @ + 1,
        !.goals = Set(@, goal_id_counter, goal),
        !.user_goals = Set(@, request.user, listed),
        !.trace = @ \o <<PersistentSet(<<"Goal", goal_id_counter>>, goal,
                                        Len(st.events)),
                         PersistentSet(<<"UserGoals", request.user>>, listed,
                                        Len(st.events))>>,
        !.events = IF request.target_amount > HIGH_VALUE_GOAL
                   THEN Append(Append(@, created), highval)
                   ELSE Append(@, created),
        !.results = Append(@, [tag |-> "Success", goal |-> goal])]

\* mutation: every goal is stored under the key of goal 1
goals_create_single_slot(request, batch_id, current_ledger, st) ==
  LET goal_id_counter == st.goal_id_counter + 1
      goal == [goal_id |-> goal_id_counter,
               user |-> request.user,
               goal_name |-> request.goal_name,
               target_amount |-> request.target_amount,
               current_amount |-> request.initial_contribution,
               deadline |-> request.deadline,
               created_at |-> current_ledger,
               is_active |-> TRUE]
      listed == Append(GetOr(st.user_goals, request.user, <<>>), goal_id_counter)
      created == Ev(<<"goal", "created", batch_id>>,
                    <<goal.goal_id, goal.user, goal.target_amount>>)
      highval == Ev(<<"goal", "highval", batch_id>>,
                    <<goal_id_counter, request.target_amount>>)
  IN [st EXCEPT
        !.goal_id_counter = goal_id_counter,
        !.total_target_amount =
            CheckedAddOr(@, request.target_amount, I128_MAX),
        !.total_initial_contributions =
            CheckedAddOr(@, request.initial_contribution, I128_MAX),
        !.successful_count = @ + 1,
        !.goals = Set(@, 1, goal),
        !.user_goals = Set(@, request.user, listed),
        !.trace = @ \o <<PersistentSet(<<"Goal", goal_id_counter>>, goal,
                                        Len(st.events)),
                         PersistentSet(<<"UserGoals", request.user>>, listed,
                                        Len(st.events))>>,
        !.events = IF request.target_amount >= HIGH_VALUE_GOAL
                   THEN Append(Append(@, created), highval)
                   ELSE Append(@, created),
        !.results = Append(@, [tag |-> "Success", goal |-> goal])]

\* mutation: the user's list is started anew with each goal
goals_create_fresh_list(request, batch_id, current_ledger, st) ==
  LET goal_id_counter == st.goal_id_counter + 1
      goal == [goal_id |-> goal_id_counter,
               user |-> request.user,
               goal_name |-> request.goal_name,
               target_amount |-> request.target_amount,
               current_amount |-> request.initial_contribution,
               deadline |-> request.deadline,
               created_at |-> current_ledger,
               is_active |-> TRUE]
      listed == <<goal_id_counter>>
      created == Ev(<<"goal", "created", batch_id>>,
                    <<goal.goal_id, goal.user, goal.target_amount>>)
      highval == Ev(<<"goal", "highval", batch_id>>,
                    <<goal_id_counter, request.target_amount>>)
  IN [st EXCEPT
        !.goal_id_counter = goal_id_counter,
        !.total_target_amount =
            CheckedAddOr(@, request.target_amount, I128_MAX),
        !.total_initial_contributions =
            CheckedAddOr(@, request.initial_contribution, I128_MAX),
        !.successful_count = @ + 1,
        !.goals = Set(@, goal_id_counter, goal),
        !.user_goals = Set(@, request.user, listed),
        !.trace = @ \o <<PersistentSet(<<"Goal", goal_id_counter>>, goal,
                                        Len(st.events)),
                         PersistentSet(<<"UserGoals", request.user>>, listed,
                                        Len(st.events))>>,
        !.events = IF request.target_amount >= HIGH_VALUE_GOAL
                   THEN Append(Append(@, created), highval)
                   ELSE Append(@, created),
        !.results = Append(@, [tag |-> "Success", goal |-> goal])]

\* the Ok arm: the goal is created, stored, listed and reported
goals_create(request, batch_id, current_ledger, st) ==
  LET goal_id_counter == st.goal_id_counter + 1
      goal == [goal_id |-> goal_id_counter,
               user |-> request.user,
               goal_name |-> request.goal_name,
               target_amount |-> request.target_amount,
               current_amount |-> request.initial_contribution,
               deadline |-> request.deadline,
               created_at |-> current_ledger,
               is_active |-> TRUE]
      listed == Append(GetOr(st.user_goals, request.user, <<>>), goal_id_counter)
      created == Ev(<<"goal", "created", batch_id>>,
                    <<goal.goal_id, goal.user, goal.target_amount>>)
      highval == Ev(<<"goal", "highval", batch_id>>,
                    <<goal_id_counter, request.target_amount>>)
  IN [st EXCEPT
        !.goal_id_counter = goal_id_counter,
        !.total_target_amount =
            CheckedAddOr(@, request.target_amount, I128_MAX),
        !.total_initial_contributions =
            CheckedAddOr(@, request.initial_contribution, I128_MAX),
        !.successful_count = @ + 1,
        !.goals = Set(@, goal_id_counter, goal),
        !.user_goals = Set(@, request.user, listed),
        !.trace = @ \o <<PersistentSet(<<"Goal", goal_id_counter>>, goal,
                                        Len(st.events)),
                         PersistentSet(<<"UserGoals", request.user>>, listed,
                                        Len(st.events))>>,
        !.events = IF request.target_amount >= HIGH_VALUE_GOAL
                   THEN Append(Append(@, created), highval)
                   ELSE Append(@, created),
        !.results = Append(@, [tag |-> "Success", goal |-> goal])]

\* mutation: a rejected request is counted with the created goals
goals_reject_counted(request, batch_id, error_code, st) ==
  [st EXCEPT
     !.successful_count = @ + 1,
     !.events = Append(@, Ev(<<"goal", "failed", batch_id>>,
         <<request.user, error_code>>)),
     !.results = Append(@, [tag |-> "Failure", user |-> request.user,
         error_code |-> error_code])]

\* mutation: a rejected request uses up a goal id
goals_reject_consuming_id(request, batch_id, error_code, st) ==
  [st EXCEPT
     !.goal_id_counter = @ + 1,
     !.failed_count = @ + 1,
     !.events = Append(@, Ev(<<"goal", "failed", batch_id>>,
         <<request.user, error_code>>)),
     !.results = Append(@, [tag |-> "Failure", user |-> request.user,
         error_code |-> error_code])]

\* the Err arm: the failure is counted and reported
goals_reject(request, batch_id, error_code, st) ==
  [st EXCEPT
     !.failed_count = @ + 1,
     !.events = Append(@, Ev(<<"goal", "failed", batch_id>>,
         <<request.user, error_code>>)),
     !.results = Append(@, [tag |-> "Failure", user |-> request.user,
         error_code |-> error_code])]

\* mutation: the goal id counter advances before the request is validated
goals_process_request_early_id(request, batch_id, current_ledger, st) ==
  LET validation == validate_goal_request(current_ledger, request) IN
  IF validation.ok
  THEN goals_create(request, batch_id, current_ledger, st)
  ELSE goals_reject(request, batch_id, validation.error_code,
                    [st EXCEPT !.goal_id_counter = @ + 1])

\* one iteration of the request loop: st carries the loop's locals and the
\* persistent entries written so far
goals_process_request(request, batch_id, current_ledger, st) ==
  LET validation == validate_goal_request(current_ledger, request) IN
  IF validation.ok
  THEN goals_create(request, batch_id, current_ledger, st)
  ELSE goals_reject(request, batch_id, validation.error_code, st)

\* mutation: every batch numbers its goals from 1
goals_run_restarting_ids(caller, batch_id, current_ledger, requests) ==
  LET body(i, st) == goals_process_request(requests[i], batch_id, current_ledger, st)
  IN
  ForEach(body, 1, Len(requests),
    [goals |-> goals,
     user_goals |-> user_goals,
     goal_id_counter |-> 0,
     results |-> <<>>,
     successful_count |-> 0,
     failed_count |-> 0,
     total_target_amount |-> 0,
     total_initial_contributions |-> 0,
     events |-> <<Ev(<<"batch", "started">>, <<batch_id, Len(requests)>>)>>,
     trace |-> <<Auth(caller, 0)>>])

\* the locals of batch_set_savings_goals after the request loop
goals_run(caller, batch_id, current_ledger, requests) ==
  LET body(i, st) == goals_process_request(requests[i], batch_id, current_ledger, st)
  IN
  ForEach(body, 1, Len(requests),
    [goals |-> goals,
     user_goals |-> user_goals,
     goal_id_counter |-> GetOr(instance, "LastGoalId", 0),
     results |-> <<>>,
     successful_count |-> 0,
     failed_count |-> 0,
     total_target_amount |-> 0,
     total_initial_contributions |-> 0,
     events |-> <<Ev(<<"batch", "started">>, <<batch_id, Len(requests)>>)>>,
     trace |-> <<Auth(caller, 0)>>])

batch_set_savings_goals ==
  /\ contract = "goals"
  /\ Len(hist.ids) < MaxBatches
  /\ \E caller \in Addr, signers \in Signers,
        requests \in Batches(GoalRequests, GoalLong) :
       LET op == "batch_set_savings_goals"
           request_count == Len(requests)
       IN
       IF caller \notin signers
       THEN Panicked(op, caller, signers, requests, "require_auth")
       ELSE IF require_admin(caller) # "ok"
       THEN Panicked(op, caller, signers, requests, require_admin(caller))
       ELSE IF validate_batch_size(request_count) # "ok"
       THEN Panicked(op, caller, signers, requests, validate_batch_size(request_count))
       ELSE
         LET batch_id == next_batch_id("LastBatchId")
             current_ledger == sequence
         IN \E st \in {goals_run(caller, batch_id, current_ledger, requests)} :
         LET avg_goal_amount ==
               IF st.successful_count > 0
               THEN st.total_target_amount \div st.successful_count
               ELSE 0
             metrics == [total_requests |-> request_count,
                         successful_goals |-> st.successful_count,
                         failed_goals |-> st.failed_count,
                         total_target_amount |-> st.total_target_amount,
                         total_initial_contributions |->
                             st.total_initial_contributions,
                         avg_goal_amount |-> avg_goal_amount,
                         processed_at |-> current_ledger]
             total_goals == GetOr(instance, "TotalGoalsCreated", 0)
             total_batches == GetOr(instance, "TotalBatchesProcessed", 0)
             at == Len(st.events)
             writes ==
               <<InstanceSet("LastBatchId", batch_id, at),
                 InstanceSet("LastGoalId", st.goal_id_counter, at),
                 InstanceSet("TotalGoalsCreated",
                             total_goals + st.successful_count, at),
                 InstanceSet("TotalBatchesProcessed", total_batches + 1, at)>>
         IN
         /\ goals' = st.goals
         /\ user_goals' = st.user_goals
         /\ instance' = ApplySets(instance, writes)
         /\ trace' = st.trace \o writes
         /\ events' = Append(st.events,
              Ev(<<"batch", "completed", batch_id>>,
                 <<st.successful_count, st.failed_count, st.total_target_amount>>))
         /\ Returned(op, caller, signers, requests,
              [batch_id |-> batch_id,
               total_requests |-> request_count,
               successful |-> st.successful_count,
               failed |-> st.failed_count,
               results |-> st.results,
               metrics |-> metrics])
         /\ Accepted(batch_id, request_count, st.successful_count)
         /\ UNCHANGED <<contract, recommendations, wallets, budgets, balance, sequence>>

goals_set_admin ==
  /\ contract = "goals"
  /\ \E current_admin \in Addr, new_admin \in Addr, signers \in Signers :
       LET op == "set_admin" IN
       IF current_admin \notin signers
       THEN Panicked(op, current_admin, signers, <<new_admin>>, "require_auth")
       ELSE IF require_admin(current_admin) # "ok"
       THEN Panicked(op, current_admin, signers, <<new_admin>>,
                     require_admin(current_admin))
       ELSE /\ instance' = Set(instance, "Admin", new_admin)
            /\ trace' = <<Auth(current_admin, 0), InstanceSet("Admin", new_admin, 0)>>
            /\ Returned(op, current_admin, signers, <<new_admin>>, <<>>)
            /\ events' = <<>>
            /\ UNCHANGED <<contract, recommendations, wallets, goals, user_goals, budgets, balance,
                           sequence, hist>>

get_last_batch_id == GetOr(instance, "LastBatchId", 0)

get_last_goal_id == GetOr(instance, "LastGoalId", 0)

get_goal(goal_id) == GetOr(goals, goal_id, "none")

get_user_goals(user) == GetOr(user_goals, user, <<>>)

get_total_goals_created == GetOr(instance, "TotalGoalsCreated", 0)

get_total_batches_processed == GetOr(instance, "TotalBatchesProcessed", 0)

\* the host closes a ledger
close_ledger ==
  /\ contract \in {"goals", "budget"}
  /\ sequence < MaxLedger
  /\ sequence' = sequence + 1
  /\ UNCHANGED <<contract, storage, events, call, hist, trace>>

\* ====================================================== budget-allocation
BudgetRequests ==
  { [user |-> "a1", amount |-> 2],
    [user |-> "a1", amount |-> 3],
    [user |-> "a2", amount |-> -1] }

BudgetLong == [user |-> "a2", amount |-> 1]

\* env.ledger().timestamp(): the model's ledger has one clock
timestamp == sequence

budget_initialize ==
  /\ contract = "budget"
  /\ \E admin \in Addr :
       IF already_initialized
       THEN Panicked("initialize", admin, {}, <<>>, "Already initialized")
       ELSE \E writes \in {<<InstanceSet("Admin", admin, 0)>>} :
            /\ instance' = ApplySets(instance, writes)
            /\ trace' = writes
            /\ Returned("initialize", admin, {}, <<>>, <<>>)
            /\ events' = <<>>
            /\ UNCHANGED <<contract, recommendations, wallets, goals, user_goals, budgets, balance,
                           sequence, hist>>

\* mutation: a user's existing record is kept, the request still counted
budget_process_request_first_write(req, current_time, st) ==
  IF req.amount < 0
  THEN [st EXCEPT
          !.failed = @ + 1,
          !.events = Append(@, Ev(<<"budget", "failed">>, <<req.user, req.amount>>))]
  ELSE
    LET record == [user |-> req.user, amount |-> req.amount,
                   last_updated |-> current_time]
    IN [st EXCEPT
          !.budgets = IF Has(@, req.user) THEN @ ELSE Set(@, req.user, record),
          !.trace = Append(@, PersistentSet(<<"Budget", req.user>>, record,
                                           Len(st.events))),
          !.events = Append(@, Ev(<<"budget", "set">>, <<req.user, req.amount>>)),
          !.successful = @ + 1,
          !.total_amount = CheckedAddOr(@, req.amount, I128_MAX)]

\* one iteration of the request loop
budget_process_request(req, current_time, st) ==
  IF req.amount < 0
  THEN [st EXCEPT
          !.failed = @ + 1,
          !.events = Append(@, Ev(<<"budget", "failed">>, <<req.user, req.amount>>))]
  ELSE
    LET record == [user |-> req.user, amount |-> req.amount,
                   last_updated |-> current_time]
    IN [st EXCEPT
          !.budgets = Set(@, req.user, record),
          !.trace = Append(@, PersistentSet(<<"Budget", req.user>>, record,
                                           Len(st.events))),
          !.events = Append(@, Ev(<<"budget", "set">>, <<req.user, req.amount>>)),
          !.successful = @ + 1,
          !.total_amount = CheckedAddOr(@, req.amount, I128_MAX)]

batch_allocate_budget ==
  /\ contract = "budget"
  /\ \E admin \in Addr, signers \in Signers,
        requests \in Batches(BudgetRequests, BudgetLong) :
       LET op == "batch_allocate_budget" IN
       IF admin \notin signers
       THEN Panicked(op, admin, signers, requests, "require_auth")
       ELSE IF ~Has(instance, "Admin")
       THEN Panicked(op, admin, signers, requests, "Not initialized")
       ELSE IF admin # instance["Admin"]
       THEN Panicked(op, admin, signers, requests, "Unauthorized")
       ELSE
         LET current_time == timestamp
             body(i, st) == budget_process_request(requests[i], current_time, st)
         IN \E st \in {ForEach(body, 1, Len(requests),
                         [budgets |-> budgets, successful |-> 0, failed |-> 0,
                          total_amount |-> 0, events |-> <<>>,
                          trace |-> <<Auth(admin, 0)>>])} :
         /\ budgets' = st.budgets
         /\ trace' = st.trace
         /\ events' = st.events
         /\ Returned(op, admin, signers, requests,
              [successful |-> st.successful, failed |-> st.failed,
               total |-> st.total_amount])
         /\ UNCHANGED <<contract, recommendations, wallets, instance, goals, user_goals, balance,
                        sequence, hist>>

get_budget(user) == GetOr(budgets, user, "none")

\* ==================================================== batch-notifications
NotificationPayloads ==
  { [user |-> "a1", message |-> "hello"],
    [user |-> "a2", message |-> ""] }

NotificationLong == [user |-> "a2", message |-> "hello"]

\* mutation: a user already in the failure list is not listed again
dispatch_payload_listing_once(payload, st) ==
  IF payload.message # ""
  THEN [st EXCEPT
          !.events = Append(@, Ev(<<"notif", payload.user>>, <<payload.message>>)),
          !.success_count = @ + 1]
  ELSE IF \E k \in 1..Len(st.failures) : st.failures[k] = payload.user
  THEN st
  ELSE [st EXCEPT !.failures = Append(@, payload.user)]

\* one iteration of the payload loop of execute_dispatch
dispatch_payload(payload, st) ==
  IF payload.message # ""
  THEN [st EXCEPT
          !.events = Append(@, Ev(<<"notif", payload.user>>, <<payload.message>>)),
          !.success_count = @ + 1]
  ELSE [st EXCEPT !.failures = Append(@, payload.user)]

execute_dispatch(payloads) ==
  LET body(i, st) == dispatch_payload(payloads[i], st) IN
  ForEach(body, 1, Len(payloads),
    [success_count |-> 0, failures |-> <<>>, events |-> <<>>])

batch_notify ==
  /\ contract = "notify"
  /\ \E admin \in Addr, signers \in Signers,
        payloads \in Batches(NotificationPayloads, NotificationLong) :
       LET op == "batch_notify" IN
       IF admin \notin signers
       THEN Panicked(op, admin, signers, payloads, "require_auth")
       ELSE \E st \in {execute_dispatch(payloads)} :
         /\ events' = st.events
         /\ trace' = <<Auth(admin, 0)>>
         /\ Returned(op, admin, signers, payloads,
              [successful_count |-> st.success_count,
               failed_addresses |-> st.failures])
         /\ UNCHANGED <<contract, storage, sequence, hist>>

\* ========================================================== batch-history
HistoryUsers == Addr

HistoryLong == "a1"

\* one iteration of the user loop of get_batch_history
history_for_user(user, st) ==
  [st EXCEPT
     !.events = Append(@, Ev(<<"history", user>>, <<"retrieved">>)),
     !.batch_results = Append(@, [user |-> user, transactions |-> <<>>])]

get_batch_history(users) ==
  LET body(i, st) == history_for_user(users[i], st) IN
  ForEach(body, 1, Len(users), [batch_results |-> <<>>, events |-> <<>>])

retrieve_histories ==
  /\ contract = "history"
  /\ \E requester \in Addr, signers \in Signers,
        users \in Batches(HistoryUsers, HistoryLong) :
       LET op == "retrieve_histories" IN
       IF requester \notin signers
       THEN Panicked(op, requester, signers, users, "require_auth")
       ELSE \E st \in {get_batch_history(users)} :
         /\ events' = st.events
         /\ trace' = <<Auth(requester, 0)>>
         /\ Returned(op, requester, signers, users, st.batch_results)
         /\ UNCHANGED <<contract, storage, sequence, hist>>

\* ================================================== batch-wallet-creation
\* lib.rs of this contract is not part of the sources: the contract is
\* modelled after its types, its tests and the common batch pipeline
WalletRequests == { [owner |-> "a1"], [owner |-> "a2"] }

WalletLong == [owner |-> "a2"]

ALREADY_EXISTS == 1

wallet_initialize ==
  /\ contract = "wallet"
  /\ \E admin \in Addr :
       IF already_initialized
       THEN Panicked("initialize", admin, {}, <<>>, "Contract already initialized")
       ELSE \E writes \in {<<InstanceSet("Admin", admin, 0),
                   InstanceSet("TotalBatches", 0, 0),
                   InstanceSet("TotalWalletsCreated", 0, 0)>>} :
            /\ instance' = ApplySets(instance, writes)
            /\ trace' = writes
            /\ Returned("initialize", admin, {}, <<>>, <<>>)
            /\ events' = <<>>
            /\ UNCHANGED <<contract, recommendations, wallets, goals, user_goals, budgets, balance,
                           sequence, hist>>

\* mutation: a failed request still takes a wallet id
wallet_failure_consuming_id(request, batch_id, error_code, st) ==
  [st EXCEPT
     !.wallet_id_counter = @ + 1,
     !.failed_count = @ + 1,
     !.events = Append(@, Ev(<<"wallet", "failure", batch_id>>,
         <<request.owner, error_code>>)),
     !.results = Append(@, [tag |-> "Failure", owner |-> request.owner,
         error_code |-> error_code])]

\* a request recorded as WalletCreateResult::Failure, with its event
wallet_failure(request, batch_id, error_code, st) ==
  [st EXCEPT
     !.failed_count = @ + 1,
     !.events = Append(@, Ev(<<"wallet", "failure", batch_id>>,
         <<request.owner, error_code>>)),
     !.results = Append(@, [tag |-> "Failure", owner |-> request.owner,
         error_code |-> error_code])]

\* a wallet created with the next id, stored under its owner and reported
wallet_success(request, batch_id, current_ledger, st) ==
  LET wallet_id == st.wallet_id_counter + 1
      wallet == [id |-> wallet_id, owner |-> request.owner,
                 created_at |-> current_ledger]
  IN [st EXCEPT
        !.wallet_id_counter = wallet_id,
        !.wallets = Set(@, request.owner, wallet),
        !.trace = Append(@, PersistentSet(<<"Wallets", request.owner>>, wallet,
                                          Len(st.events))),
        !.successful_count = @ + 1,
        !.events = Append(@, Ev(<<"wallet", "created", batch_id>>,
            <<request.owner, wallet_id>>)),
        !.results = Append(@, [tag |-> "Success", owner |-> request.owner,
            error_code |-> 0])]

\* mutation: the owner is looked up in the wallets stored before the batch
wallet_process_request_snapshot(request, batch_id, current_ledger, st) ==
  IF Has(wallets, request.owner)
  THEN wallet_failure(request, batch_id, ALREADY_EXISTS, st)
  ELSE wallet_success(request, batch_id, current_ledger, st)

\* one iteration of the request loop: an owner who has a wallet is refused
wallet_process_request(request, batch_id, current_ledger, st) ==
  IF Has(st.wallets, request.owner)
  THEN wallet_failure(request, batch_id, ALREADY_EXISTS, st)
  ELSE wallet_success(request, batch_id, current_ledger, st)

\* the locals of batch_create_wallets after the request loop
wallet_run(caller, batch_id, current_ledger, requests) ==
  LET body(i, st) == wallet_process_request(requests[i], batch_id, current_ledger, st)
  IN
  ForEach(body, 1, Len(requests),
    [wallets |-> wallets,
     wallet_id_counter |-> GetOr(instance, "TotalWalletsCreated", 0),
     results |-> <<>>,
     successful_count |-> 0,
     failed_count |-> 0,
     events |-> <<Ev(<<"batch", "started">>, <<batch_id, Len(requests)>>)>>,
     trace |-> <<Auth(caller, 0)>>])

batch_create_wallets ==
  /\ contract = "wallet"
  /\ Len(hist.ids) < MaxBatches
  /\ \E caller \in Addr, signers \in Signers,
        requests \in Batches(WalletRequests, WalletLong) :
       LET op == "batch_create_wallets"
           request_count == Len(requests)
       IN
       IF caller \notin signers
       THEN Panicked(op, caller, signers, requests, "require_auth")
       ELSE IF require_admin(caller) # "ok"
       THEN Panicked(op, caller, signers, requests, require_admin(caller))
       ELSE IF validate_batch_size(request_count) # "ok"
       THEN Panicked(op, caller, signers, requests, validate_batch_size(request_count))
       ELSE
         LET batch_id == next_batch_id("TotalBatches")
             current_ledger == sequence
         IN \E st \in {wallet_run(caller, batch_id, current_ledger, requests)} :
         LET total_batches == GetOr(instance, "TotalBatches", 0)
             total_wallets == GetOr(instance, "TotalWalletsCreated", 0)
             at == Len(st.events)
             writes ==
               <<InstanceSet("TotalBatches", total_batches + 1, at),
                 InstanceSet("TotalWalletsCreated",
                             total_wallets + st.successful_count, at)>>
         IN
         /\ wallets' = st.wallets
         /\ instance' = ApplySets(instance, writes)
         /\ trace' = st.trace \o writes
         /\ events' = Append(st.events,
              Ev(<<"batch", "completed", batch_id>>,
                 <<st.successful_count, st.failed_count>>))
         /\ Returned(op, caller, signers, requests,
              [batch_id |-> batch_id,
               total_requests |-> request_count,
               successful |-> st.successful_count,
               failed |-> st.failed_count,
               results |-> st.results])
         /\ Accepted(batch_id, request_count, st.successful_count)
         /\ UNCHANGED <<contract, recommendations, goals, user_goals, budgets, balance, sequence>>

get_wallet(owner) == GetOr(wallets, owner, "none")

get_total_wallets_created == GetOr(instance, "TotalWalletsCreated", 0)

\* ================================================ budget-recommendations
\* lib.rs of this contract is not part of the sources: the entry points are
\* those test.rs calls, run through the common batch pipeline, and the
\* engine follows the description of its algorithm (risk bands, months of
\* expenses, confidence, note).  The profiles are those test.rs builds,
\* scaled down: a conservative user who saves nothing yet, and a moderate
\* user with savings who spends more than they earn.  Each user_id names
\* one profile
Profiles ==
  { [user_id |-> 1, address |-> "a1", monthly_income |-> 10,
     monthly_expenses |-> 5, savings_balance |-> 0,
     spending_categories |-> "food,transport,utilities", risk_tolerance |-> 1],
    [user_id |-> 2, address |-> "a2", monthly_income |-> 5,
     monthly_expenses |-> 8, savings_balance |-> 100,
     spending_categories |-> "food,transport,utilities", risk_tolerance |-> 3] }

get_total_users_processed == GetOr(instance, "TotalUsersProcessed", 0)

get_total_recommendations_generated ==
  GetOr(instance, "TotalRecommendationsGenerated", 0)

get_batch_recommendations(batch_id) == GetOr(recommendations, batch_id, "none")

recommend_initialize ==
  /\ contract = "recommend"
  /\ \E admin \in Addr :
       IF already_initialized
       THEN Panicked("initialize", admin, {}, <<>>, "Contract already initialized")
       ELSE \E writes \in {<<InstanceSet("Admin", admin, 0),
                   InstanceSet("LastBatchId", 0, 0),
                   InstanceSet("TotalUsersProcessed", 0, 0),
                   InstanceSet("TotalRecommendationsGenerated", 0, 0)>>} :
            /\ instance' = ApplySets(instance, writes)
            /\ trace' = writes
            /\ Returned("initialize", admin, {}, <<>>, <<>>)
            /\ events' = <<>>
            /\ UNCHANGED <<contract, recommendations, wallets, goals, user_goals,
                           budgets, balance, sequence, hist>>

\* risk tolerance 1-2 is conservative, 3 moderate, 4-5 aggressive
risk_band(risk_tolerance) ==
  IF risk_tolerance <= 2 THEN "conservative"
  ELSE IF risk_tolerance = 3 THEN "moderate"
  ELSE "aggressive"

\* mutation: the moderate band is given fewer months than the aggressive one
emergency_months_swapped(band) ==
  CASE band = "conservative" -> 6
    [] band = "moderate" -> 2
    [] OTHER -> 3

\* months of expenses the emergency fund covers: about 6, 4 to 5, and 3
emergency_months(band) ==
  CASE band = "conservative" -> 6
    [] band = "moderate" -> 4
    [] OTHER -> 3

\* share of the net income to save, in percent: the more aggressive the less
savings_percent(band) ==
  CASE band = "conservative" -> 30
    [] band = "moderate" -> 20
    [] OTHER -> 10

NonNegative(amount) == IF amount < 0 THEN 0 ELSE amount

\* 0..100: higher with a positive net income and with savings; a user who
\* spends more than they earn stays out of the top band
confidence_score(profile) ==
  LET base == IF profile.monthly_income > profile.monthly_expenses
              THEN 80 ELSE 50
      bonus == IF profile.savings_balance <= 0 THEN 0
               ELSE IF profile.savings_balance >= 6 * profile.monthly_expenses
               THEN 10 ELSE 5
  IN base + bonus

recommendation_notes(profile) ==
  IF profile.monthly_expenses > profile.monthly_income
  THEN "expenses_exceed_income_review_needed"
  ELSE "none"

\* mutation: the engine reads a persisted counter into the confidence score
recommend_counting(profile) ==
  LET band == risk_band(profile.risk_tolerance)
  IN [user_id |-> profile.user_id,
      recommendation_type |-> band,
      recommended_budget |->
        NonNegative((profile.monthly_income * 80) \div 100
                    - profile.monthly_expenses),
      recommended_savings |->
        (NonNegative(profile.monthly_income - profile.monthly_expenses)
           * savings_percent(band)) \div 100,
      emergency_fund_target |-> profile.monthly_expenses * emergency_months(band),
      confidence_score |-> confidence_score(profile) + get_total_users_processed,
      notes |-> recommendation_notes(profile)]

\* the Decision Engine: the recommendation for one profile, from the
\* profile alone
recommend(profile) ==
  LET band == risk_band(profile.risk_tolerance)
  IN [user_id |-> profile.user_id,
      recommendation_type |-> band,
      recommended_budget |->
        NonNegative((profile.monthly_income * 80) \div 100
                    - profile.monthly_expenses),
      recommended_savings |->
        (NonNegative(profile.monthly_income - profile.monthly_expenses)
           * savings_percent(band)) \div 100,
      emergency_fund_target |-> profile.monthly_expenses * emergency_months(band),
      confidence_score |-> confidence_score(profile),
      notes |-> recommendation_notes(profile)]

\* one iteration of the profile loop: the recommendation, its result and
\* its event
recommend_process_profile(profile, batch_id, st) ==
  LET rec == recommend(profile)
  IN [st EXCEPT
        !.successful = @ + 1,
        !.total_recommended_budget = @ + rec.recommended_budget,
        !.total_recommended_savings = @ + rec.recommended_savings,
        !.events = Append(@, Ev(<<"recommendation", "generated", batch_id>>,
            <<rec.user_id, rec.recommendation_type>>)),
        !.results = Append(@, [tag |-> "Success", rec |-> rec])]

\* the locals of generate_batch_recommendations after the profile loop
recommend_run(caller, batch_id, profiles) ==
  LET body(i, st) == recommend_process_profile(profiles[i], batch_id, st)
  IN
  ForEach(body, 1, Len(profiles),
    [results |-> <<>>,
     successful |-> 0,
     failed |-> 0,
     total_recommended_budget |-> 0,
     total_recommended_savings |-> 0,
     events |-> <<Ev(<<"batch", "started">>, <<batch_id, Len(profiles)>>)>>,
     trace |-> <<Auth(caller, 0)>>])

generate_batch_recommendations ==
  /\ contract = "recommend"
  /\ Len(hist.ids) < MaxBatches
  /\ \E admin \in Addr, signers \in Signers,
        profiles \in SeqsUpTo(Profiles, MaxLen) :
       LET op == "generate_batch_recommendations"
           total_users == Len(profiles)
       IN
       IF admin \notin signers
       THEN Panicked(op, admin, signers, profiles, "require_auth")
       ELSE IF require_admin(admin) # "ok"
       THEN Panicked(op, admin, signers, profiles, require_admin(admin))
       ELSE IF validate_batch_size(total_users) # "ok"
       THEN Panicked(op, admin, signers, profiles, validate_batch_size(total_users))
       ELSE
         LET batch_id == next_batch_id("LastBatchId") IN
         \E st \in {recommend_run(admin, batch_id, profiles)} :
         LET at == Len(st.events)
             stored == PersistentSet(<<"BatchRecommendations", batch_id>>,
                                     st.results, at)
             writes ==
               <<InstanceSet("LastBatchId", batch_id, at),
                 InstanceSet("TotalUsersProcessed",
                             get_total_users_processed + total_users, at),
                 InstanceSet("TotalRecommendationsGenerated",
                             get_total_recommendations_generated + st.successful,
                             at)>>
         IN
         /\ recommendations' = Set(recommendations, batch_id, st.results)
         /\ instance' = ApplySets(instance, writes)
         /\ trace' = Append(st.trace, stored) \o writes
         /\ events' = Append(st.events,
              Ev(<<"batch", "completed", batch_id>>, <<st.successful, st.failed>>))
         /\ Returned(op, admin, signers, profiles,
              [batch_id |-> batch_id,
               total_users |-> total_users,
               successful |-> st.successful,
               failed |-> st.failed,
               results |-> st.results,
               metrics |->
                 [user_count |-> total_users,
                  successful_recommendations |-> st.successful,
                  failed_recommendations |-> st.failed,
                  total_recommended_budget |-> st.total_recommended_budget,
                  total_recommended_savings |-> st.total_recommended_savings]])
         /\ Accepted(batch_id, total_users, st.successful)
         /\ UNCHANGED <<contract, wallets, goals, user_goals, budgets, balance,
                        sequence>>

\* mutation: a simulation is counted as a generated recommendation
simulate_writes_counting(profile) ==
  <<InstanceSet("TotalRecommendationsGenerated",
                get_total_recommendations_generated + 1, 0)>>

\* what simulate_recommendation writes to the storage: nothing
simulate_writes(profile) == <<>>

\* the dry run: the engine on one profile, for any caller, Some(rec) returned
simulate_recommendation ==
  /\ contract = "recommend"
  /\ \E caller \in Addr, profile \in Profiles :
       \E writes \in {simulate_writes(profile)} :
         /\ instance' = ApplySets(instance, writes)
         /\ trace' = writes
         /\ events' = <<>>
         /\ Returned("simulate_recommendation", caller, {}, <<profile>>,
                     <<recommend(profile)>>)
         /\ UNCHANGED <<contract, recommendations, wallets, goals, user_goals,
                        budgets, balance, sequence, hist>>

recommend_set_admin ==
  /\ contract = "recommend"
  /\ \E current_admin \in Addr, new_admin \in Addr, signers \in Signers :
       LET op == "set_admin" IN
       IF current_admin \notin signers
       THEN Panicked(op, current_admin, signers, <<new_admin>>, "require_auth")
       ELSE IF require_admin(current_admin) # "ok"
       THEN Panicked(op, current_admin, signers, <<new_admin>>,
                     require_admin(current_admin))
       ELSE /\ instance' = Set(instance, "Admin", new_admin)
            /\ trace' = <<Auth(current_admin, 0), InstanceSet("Admin", new_admin, 0)>>
            /\ Returned(op, current_admin, signers, <<new_admin>>, <<>>)
            /\ events' = <<>>
            /\ UNCHANGED <<contract, recommendations, wallets, goals, user_goals,
                           budgets, balance, sequence, hist>>

\* =========================================================== batch-payment
\* payments of the token z, of which a1 holds I128_MAX - 1 and a2 nothing
PaymentToken == "z"

Payments ==
  { [recipient |-> "a2", amount |-> 1],
    [recipient |-> "a1", amount |-> I128_MAX - 2],
    [recipient |-> "a2", amount |-> 0] }

\* a + b in i128 arithmetic without overflow checks, for a, b >= 0
WrappingAdd(a, b) ==
  IF a > I128_MAX - b THEN (a + I128_MIN) + (b + I128_MIN) ELSE a + b

\* the token refuses a transfer the sender cannot cover
token_covers(bal, token, from, amount) == bal[<<from, token>>] >= amount

\* mutation: a payment that is not positive is passed over
payment_step_lenient(payment, from, token, batch_id, st) ==
  IF st.error # "none"
  THEN st
  ELSE IF payment.amount <= 0
  THEN st
  ELSE IF ~token_covers(st.balance, token, from, payment.amount)
  THEN [st EXCEPT !.error = "token: balance is not sufficient"]
  ELSE [st EXCEPT
          !.balance = token_transfer(@, token, from, payment.recipient,
                                     payment.amount),
          !.trace = Append(@, TokenTransfer(from, payment.recipient,
                                            payment.amount, Len(st.events))),
          !.overflowed = @ \/ st.total_amount > I128_MAX - payment.amount,
          !.total_amount = WrappingAdd(@, payment.amount),
          !.count = @ + 1,
          !.events = Append(@, Ev(<<"payment", batch_id, payment.recipient>>,
                                  <<token, payment.amount>>))]

\* mutation: the total counts every payment as 1
payment_step_counting(payment, from, token, batch_id, st) ==
  IF st.error # "none"
  THEN st
  ELSE IF payment.amount <= 0
  THEN [st EXCEPT !.error = "Payment amount must be positive"]
  ELSE IF ~token_covers(st.balance, token, from, payment.amount)
  THEN [st EXCEPT !.error = "token: balance is not sufficient"]
  ELSE [st EXCEPT
          !.balance = token_transfer(@, token, from, payment.recipient,
                                     payment.amount),
          !.trace = Append(@, TokenTransfer(from, payment.recipient,
                                            payment.amount, Len(st.events))),
          !.total_amount = WrappingAdd(@, 1),
          !.count = @ + 1,
          !.events = Append(@, Ev(<<"payment", batch_id, payment.recipient>>,
                                  <<token, payment.amount>>))]

\* one iteration of the payment loop: st carries the loop's locals, the
\* token ledger and the panic that ended the loop, if any
payment_step(payment, from, token, batch_id, st) ==
  IF st.error # "none"
  THEN st
  ELSE IF payment.amount <= 0
  THEN [st EXCEPT !.error = "Payment amount must be positive"]
  ELSE IF ~token_covers(st.balance, token, from, payment.amount)
  THEN [st EXCEPT !.error = "token: balance is not sufficient"]
  ELSE [st EXCEPT
          !.balance = token_transfer(@, token, from, payment.recipient,
                                     payment.amount),
          !.trace = Append(@, TokenTransfer(from, payment.recipient,
                                            payment.amount, Len(st.events))),
          !.overflowed = @ \/ st.total_amount > I128_MAX - payment.amount,
          !.total_amount = WrappingAdd(@, payment.amount),
          !.count = @ + 1,
          !.events = Append(@, Ev(<<"payment", batch_id, payment.recipient>>,
                                  <<token, payment.amount>>))]

\* the locals of batch_transfer of batch-payment after the payment loop
payment_run(bal, from, token, batch_id, payments) ==
  LET body(i, st) == payment_step(payments[i], from, token, batch_id, st) IN
  ForEach(body, 1, Len(payments),
    [balance |-> bal,
     total_amount |-> 0,
     count |-> 0,
     overflowed |-> FALSE,
     error |-> "none",
     events |-> <<>>,
     trace |-> <<Auth(from, 0)>>])

\* batch_transfer of batch-payment.  total_amount += amount overflows only
\* when the payments add up to more than i128::MAX: a build with overflow
\* checks panics there, a build without them wraps
payment_batch_transfer ==
  /\ contract = "payment"
  /\ Len(hist.ids) < MaxBatches
  /\ \E from \in Addr, signers \in Signers, token \in {PaymentToken},
        payments \in SeqsUpTo(Payments, MaxLen) :
       LET op == "batch_payment"  \* told from batch_transfer of batch-transfer
           batch_id == sequence
       IN
       IF from \notin signers
       THEN Panicked(op, from, signers, payments, "require_auth")
       ELSE \E st \in {payment_run(balance, from, token, batch_id, payments)} :
         IF st.error # "none"
         THEN Panicked(op, from, signers, payments, st.error)
         ELSE
           \/ /\ st.overflowed
              /\ Panicked(op, from, signers, payments, "attempt to add with overflow")
           \/ /\ balance' = st.balance
              /\ trace' = st.trace
              /\ events' = Append(st.events,
                   Ev(<<"batch", "complete", batch_id>>,
                      <<st.count, st.total_amount>>))
              /\ Returned(op, from, signers, payments, <<>>)
              /\ Accepted(batch_id, Len(payments), st.count)
              /\ UNCHANGED <<contract, recommendations, instance, goals, user_goals, budgets,
                             wallets, sequence>>

Next ==
  \/ transfer_initialize
  \/ batch_transfer
  \/ transfer_set_admin
  \/ conversion_initialize
  \/ batch_convert_currency
  \/ goals_initialize
  \/ batch_set_savings_goals
  \/ goals_set_admin
  \/ close_ledger
  \/ budget_initialize
  \/ batch_allocate_budget
  \/ batch_notify
  \/ retrieve_histories
  \/ wallet_initialize
  \/ batch_create_wallets
  \/ payment_batch_transfer
  \/ recommend_initialize
  \/ generate_batch_recommendations
  \/ simulate_recommendation
  \/ recommend_set_admin

Spec == Init /\ [][Next]_vars

\* ------------------------------------------ validate_goal_request by itself
\* the requests validate_goal_request is applied to: every field at both
\* sides of each of its limits
BoundaryGoalRequests(current_ledger) ==
  {[user |-> "a1", goal_name |-> "vacation", target_amount |-> target_amount,
    deadline |-> deadline, initial_contribution |-> initial_contribution] :
     target_amount \in {MIN_GOAL_AMOUNT - 1, MIN_GOAL_AMOUNT,
                        MAX_GOAL_AMOUNT, MAX_GOAL_AMOUNT + 1},
     deadline \in {current_ledger, current_ledger + 1,
                   current_ledger + MAX_FUTURE_LEDGERS,
                   current_ledger + MAX_FUTURE_LEDGERS + 1},
     initial_contribution \in {-1, 0, MIN_GOAL_AMOUNT, MIN_GOAL_AMOUNT + 1,
                               MAX_GOAL_AMOUNT, MAX_GOAL_AMOUNT + 1}}

\* a goal request waits to be validated at some ledger
InitValidation ==
  /\ contract = "goals"
  /\ instance = EmptyStore
  /\ goals = EmptyStore
  /\ user_goals = EmptyStore
  /\ budgets = EmptyStore
  /\ wallets = EmptyStore
  /\ recommendations = EmptyStore
  /\ balance = InitBalance
  /\ sequence \in 0..MaxLedger
  /\ events = <<>>
  /\ hist = NoHist
  /\ trace = <<>>
  /\ \E request \in BoundaryGoalRequests(sequence) :
       call = [NoCall EXCEPT !.op = "validate_goal_request",
                             !.items = <<request>>]

\* validate_goal_request(&env, &request)
validate_goal_request_applied ==
  /\ call.op = "validate_goal_request"
  /\ call.status = "none"
  /\ call' = [call EXCEPT !.status = "ok",
                          !.result = validate_goal_request(sequence, call.items[1])]
  /\ UNCHANGED <<contract, storage, sequence, events, hist, trace>>

NextValidation == validate_goal_request_applied

SpecValidation == InitValidation /\ [][NextValidation]_vars

\* ---------------------------------------------- the goal loop by itself
\* the requests the loop is applied to: targets at both sides of the
\* smallest, the high-value and the largest amount, each with a deadline
\* that has passed and one that has not
ProcessingGoalRequests ==
  {[user |-> "a1", goal_name |-> "vacation", target_amount |-> target_amount,
    deadline |-> deadline, initial_contribution |-> 0] :
     target_amount \in {MIN_GOAL_AMOUNT - 1, HIGH_VALUE_GOAL - 1,
                        HIGH_VALUE_GOAL, MAX_GOAL_AMOUNT, MAX_GOAL_AMOUNT + 1},
     deadline \in {0, 1}}

\* the largest batch of the largest goals, each fully paid in
LargestGoals ==
  Repeat([user |-> "a1", goal_name |-> "vacation",
          target_amount |-> MAX_GOAL_AMOUNT, deadline |-> 1,
          initial_contribution |-> MAX_GOAL_AMOUNT], MAX_BATCH_SIZE)

\* a batch of one or two requests, or the largest one, waits at ledger 0
InitGoalProcessing ==
  /\ contract = "goals"
  /\ instance = EmptyStore
  /\ goals = EmptyStore
  /\ user_goals = EmptyStore
  /\ budgets = EmptyStore
  /\ wallets = EmptyStore
  /\ recommendations = EmptyStore
  /\ balance = InitBalance
  /\ sequence = 0
  /\ events = <<>>
  /\ hist = NoHist
  /\ trace = <<>>
  /\ \E requests \in (SeqsUpTo(ProcessingGoalRequests, 2) \ {<<>>})
                        \cup {LargestGoals} :
       call = [NoCall EXCEPT !.op = "goals_run", !.items = requests]

\* the request loop of batch 1: its results, its sums, its events and the
\* goals it stores
goals_run_applied ==
  /\ call.op = "goals_run"
  /\ call.status = "none"
  /\ \E st \in {goals_run("a1", 1, sequence, call.items)} :
       /\ call' = [call EXCEPT
            !.status = "ok",
            !.result = [results |-> st.results,
                        successful |-> st.successful_count,
                        failed |-> st.failed_count,
                        total_target_amount |-> st.total_target_amount,
                        total_initial_contributions |->
                            st.total_initial_contributions]]
       /\ events' = st.events
       /\ goals' = st.goals
       /\ user_goals' = st.user_goals
  /\ UNCHANGED <<contract, instance, budgets, wallets, recommendations, balance,
                 sequence, hist, trace>>

NextGoalProcessing == goals_run_applied

SpecGoalProcessing == InitGoalProcessing /\ [][NextGoalProcessing]_vars

\* --------------------------------------- the goals one request can store
\* one request, with every field at both sides of each limit of the
\* validation, waits to be processed at some ledger
InitGoalStorage ==
  /\ contract = "goals"
  /\ instance = EmptyStore
  /\ goals = EmptyStore
  /\ user_goals = EmptyStore
  /\ budgets = EmptyStore
  /\ wallets = EmptyStore
  /\ recommendations = EmptyStore
  /\ balance = InitBalance
  /\ sequence \in 0..MaxLedger
  /\ events = <<>>
  /\ hist = NoHist
  /\ trace = <<>>
  /\ \E request \in BoundaryGoalRequests(sequence) :
       call = [NoCall EXCEPT !.op = "goals_run", !.items = <<request>>]

NextGoalStorage == goals_run_applied

SpecGoalStorage == InitGoalStorage /\ [][NextGoalStorage]_vars

\* ------------------------------------ the conversion validation by itself
\* the requests the two passes are applied to: each amount below, at and
\* above zero, the assets equal and different
BoundaryConversionRequests ==
  {[user |-> user, from_asset |-> from_asset, to_asset |-> to_asset,
    amount_in |-> amount_in, min_amount_out |-> min_amount_out] :
     user \in Addr, from_asset \in {"x", "y"}, to_asset \in {"x", "y"},
     amount_in \in {-1, 0, 1, 2}, min_amount_out \in {-1, 0, 1}}

\* a conversion request waits to be validated
InitConversionValidation ==
  /\ contract = "conversion"
  /\ instance = EmptyStore
  /\ goals = EmptyStore
  /\ user_goals = EmptyStore
  /\ budgets = EmptyStore
  /\ wallets = EmptyStore
  /\ recommendations = EmptyStore
  /\ balance = InitBalance
  /\ sequence = 0
  /\ events = <<>>
  /\ hist = NoHist
  /\ trace = <<>>
  /\ \E request \in BoundaryConversionRequests :
       call = [NoCall EXCEPT !.op = "conversion_validated",
                             !.items = <<request>>]

\* the first pass on the request, and the result the second pass records
\* for it when every user has signed
conversion_validated_applied ==
  /\ call.op = "conversion_validated"
  /\ call.status = "none"
  /\ call' = [call EXCEPT
       !.status = "ok",
       !.result = [validated |-> conversion_validated(call.items),
                   results |-> conversion_run(balance, 1, Addr, call.items).results]]
  /\ UNCHANGED <<contract, storage, sequence, events, hist, trace>>

NextConversionValidation == conversion_validated_applied

SpecConversionValidation ==
  InitConversionValidation /\ [][NextConversionValidation]_vars

\* ------------------------------------------------------ recommend by itself
\* the profiles the engine is applied to: every risk tolerance, with no
\* expenses, expenses below and above the income, and the largest expenses
\* of which six months still fit an i128
EngineProfiles ==
  {[user_id |-> 1, address |-> "a1", monthly_income |-> income,
    monthly_expenses |-> expenses, savings_balance |-> savings,
    spending_categories |-> "food,transport,utilities",
    risk_tolerance |-> risk_tolerance] :
     income \in {0, 10}, expenses \in {0, 5, 20, I128_MAX \div 6},
     savings \in {0, 100}, risk_tolerance \in 1..5}

\* two profiles wait for their recommendations
InitEngine ==
  /\ contract = "recommend"
  /\ instance = EmptyStore
  /\ goals = EmptyStore
  /\ user_goals = EmptyStore
  /\ budgets = EmptyStore
  /\ wallets = EmptyStore
  /\ recommendations = EmptyStore
  /\ balance = InitBalance
  /\ sequence = 0
  /\ events = <<>>
  /\ hist = NoHist
  /\ trace = <<>>
  /\ \E first \in EngineProfiles, second \in EngineProfiles :
       call = [NoCall EXCEPT !.op = "recommend", !.items = <<first, second>>]

\* recommend(profile), for each of the two
recommend_applied ==
  /\ call.op = "recommend"
  /\ call.status = "none"
  /\ call' = [call EXCEPT !.status = "ok",
                          !.result = <<recommend(call.items[1]),
                                       recommend(call.items[2])>>]
  /\ UNCHANGED <<contract, storage, sequence, events, hist, trace>>

NextEngine == recommend_applied

SpecEngine == InitEngine /\ [][NextEngine]_vars

\* ==================================================================
\* Properties
\* ==================================================================
CoreBatchOps == {"batch_convert_currency", "batch_transfer", "batch_set_savings_goals"}

AdminGatedOps == {"batch_transfer", "batch_set_savings_goals", "batch_allocate_budget"}

UnboundedBatchOps == {"batch_allocate_budget", "batch_notify", "retrieve_histories"}

\* the step is an invocation (it replaces the record of the last one)
Invoked == call' # call

\* the account and the amount a request names
ItemAccount(op, item) ==
  IF op = "batch_transfer" THEN item.recipient ELSE item.user

ItemAmount(op, item) ==
  CASE op = "batch_transfer" -> item.amount
    [] op = "batch_convert_currency" -> item.amount_in
    [] op = "batch_set_savings_goals" -> item.target_amount

\* the result entry r carries the account / the amount of the request
EchoesAccount(op, r, item) ==
  CASE op = "batch_transfer" -> r.recipient = item.recipient
    [] op = "batch_convert_currency" -> r.user = item.user
    [] op = "batch_set_savings_goals" ->
         IF r.tag = "Success" THEN r.goal.user = item.user ELSE r.user = item.user

EchoesAmount(op, r, item) ==
  CASE op = "batch_transfer" -> r.amount = item.amount
    [] op = "batch_convert_currency" -> r.amount = item.amount_in
    [] op = "batch_set_savings_goals" ->
         "goal" \in DOMAIN r /\ r.goal.target_amount = item.target_amount

Processed == call.op \in CoreBatchOps /\ call.status = "ok"

\* C1: a processed call of batch_convert_currency, batch_transfer or
\* batch_set_savings_goals returns exactly total_requests result entries,
\* total_requests is the number of submitted items, and
\* successful + failed = total_requests.
C1_ResultCounts ==
  Processed =>
    /\ Len(call.result.results) = call.result.total_requests
    /\ call.result.total_requests = Len(call.items)
    /\ call.result.successful + call.result.failed = call.result.total_requests

C1_Witness ==
  /\ Processed
  /\ Len(call.items) = MAX_BATCH_SIZE
  /\ call.result.successful >= 1
  /\ call.result.failed >= 1

PassesValidation(op, item) ==
  CASE op = "batch_transfer" -> transfer_validated(<<item>>)[1].is_valid
    [] op = "batch_convert_currency" -> conversion_validated(<<item>>)[1].is_valid
    [] op = "batch_set_savings_goals" -> validate_goal_request(sequence, item).ok

\* the requests that pass validation, in order
KeptItems(op, items) == SelectSeq(items, LAMBDA item : PassesValidation(op, item))

Results(paired) == [i \in 1..Len(paired) |-> paired[i].result]

\* the result entries of the requests that pass validation, in order
KeptResults(op, items, results) ==
  Results(SelectSeq([i \in 1..Len(items) |-> [item |-> items[i], result |-> results[i]]],
                    LAMBDA p : PassesValidation(op, p.item)))

\* the call of this step did what the same call without its invalid
\* requests does from the same state
Isolated ==
  LET op == call'.op IN
  \E kept \in {KeptItems(op, call'.items)} :
  CASE op = "batch_transfer" ->
         \E alone \in {transfer_run(balance, next_batch_id("TotalBatches"),
                                    call'.caller, "x", kept, 0)} :
            /\ call'.status = "ok"
            /\ KeptResults(op, call'.items, call'.result.results) = alone.results
            /\ balance' = alone.balance
    [] op = "batch_set_savings_goals" ->
         \E alone \in {goals_run(call'.caller, next_batch_id("LastBatchId"),
                                 sequence, kept)} :
            /\ call'.status = "ok"
            /\ KeptResults(op, call'.items, call'.result.results) = alone.results
            /\ goals' = alone.goals
            /\ user_goals' = alone.user_goals
            /\ GetOr(instance', "LastGoalId", 0) = alone.goal_id_counter
    [] op = "batch_convert_currency" ->
         \E alone \in {conversion_run(balance, next_batch_id("TotalBatches"),
                                      call'.signers, kept)} :
            IF call'.status = "ok"
            THEN /\ ~alone.panicked
                 /\ KeptResults(op, call'.items, call'.result.results) = alone.results
            ELSE alone.panicked

\* the token refused no transfer of the call of this step
TokenAccepts == call'.error \notin HostRejections

\* the call of this step passed the preconditions checked before the items,
\* and the token went along with it
PassedPreconditions ==
  /\ Invoked
  /\ call'.op \in CoreBatchOps
  /\ validate_batch_size(Len(call'.items)) = "ok"
  /\ TokenAccepts
  /\ call'.op # "batch_convert_currency" =>
       /\ call'.caller \in call'.signers
       /\ require_admin(call'.caller) = "ok"

\* C3: a request that fails validation neither aborts the batch nor changes
\* the outcome of another request: every call that passes the preconditions
\* gives each valid request the result, and leaves the storage, it gives
\* without the invalid requests; a valid request that succeeds on its own
\* still succeeds after any number of invalid ones.
C3_PartialFailureIsolation == [][PassedPreconditions => Isolated]_vars

C3_Witness ==
  /\ Processed
  /\ \E i, j \in 1..Len(call.items) :
       /\ i < j
       /\ ~PassesValidation(call.op, call.items[i])
       /\ call.result.results[i].tag = "Failure"
       /\ call.result.results[j].tag = "Success"

GatePasses ==
  IF call'.op = "batch_convert_currency" THEN call'.signers = Addr
  ELSE /\ call'.caller \in call'.signers
       /\ require_admin(call'.caller) = "ok"
       /\ TokenAccepts

\* C5: batch_convert_currency, batch_transfer and batch_set_savings_goals
\* process a call whose other preconditions hold iff it has 1..100 items; a
\* call with 0 or more than 100 items changes no persisted counter, stored
\* entity or balance and leaves no event.
C5_BatchSizePrecondition ==
  [][(Invoked /\ call'.op \in CoreBatchOps) =>
       IF Len(call'.items) >= 1 /\ Len(call'.items) <= 100
       THEN GatePasses => call'.status = "ok"
       ELSE /\ call'.status = "panic"
            /\ storage' = storage
            /\ hist' = hist
            /\ events' = <<>>]_vars

C5_Witness ==
  /\ call.op \in CoreBatchOps
  /\ Len(call.items) = 101
  /\ call.status = "panic"
  /\ call.error = "BatchTooLarge"
  /\ hist.requests >= 100

\* C6 as stated: batch_allocate_budget, batch_notify and retrieve_histories
\* abort a call whose item list is empty or longer than 100.
C6_EveryEntryPointChecksSize ==
  (call.op \in UnboundedBatchOps /\ (Len(call.items) = 0 \/ Len(call.items) > 100))
    => call.status = "panic"

\* C7: batch_transfer, batch_set_savings_goals and batch_allocate_budget
\* process a call only if the contract is initialized and the caller is the
\* stored admin; any other call aborts with storage, balances and events
\* as before.
C7_AdminGate ==
  [][(Invoked /\ call'.op \in AdminGatedOps) =>
       \/ Has(instance, "Admin") /\ call'.caller = instance["Admin"]
       \/ /\ call'.status = "panic"
          /\ storage' = storage
          /\ hist' = hist
          /\ events' = <<>>]_vars

C7_Witness ==
  /\ call.op \in AdminGatedOps
  /\ call.status = "panic"
  /\ call.error = "Unauthorized"
  /\ call.caller \in call.signers
  /\ Len(call.items) >= 1

\* C8: once a contract has an admin, every initialize call fails and leaves
\* the stored admin and the persisted counters unchanged; the admin entry,
\* once set, is never removed.
C8_InitializeOnce ==
  [][/\ Has(instance, "Admin") => Has(instance', "Admin")
     /\ (Invoked /\ call'.op = "initialize" /\ Has(instance, "Admin")) =>
          /\ call'.status = "panic"
          /\ storage' = storage
          /\ hist' = hist]_vars

C8_Witness ==
  /\ call.op = "initialize"
  /\ call.status = "panic"
  /\ Len(hist.ids) >= 1
  /\ call.caller # instance["Admin"]

\* C9: set_admin(current, new) stores new as the admin iff current signed
\* the call and is the stored admin, otherwise it aborts and the admin is
\* unchanged; nothing but a successful set_admin changes the admin; batch
\* calls and set_admin are accepted from the stored admin only, so after a
\* change of admin from the new one and no longer from the old one.
C9_AdminReplacedByAdminOnly ==
  [][/\ (Invoked /\ call'.op = "set_admin") =>
          IF /\ call'.caller \in call'.signers
             /\ Has(instance, "Admin")
             /\ call'.caller = instance["Admin"]
          THEN /\ call'.status = "ok"
               /\ instance' = [instance EXCEPT !["Admin"] = call'.items[1]]
          ELSE /\ call'.status = "panic"
               /\ instance' = instance
     /\ (Has(instance, "Admin") /\ instance'["Admin"] # instance["Admin"]) =>
          /\ call'.op = "set_admin"
          /\ call'.status = "ok"
          /\ call'.caller = instance["Admin"]
     /\ (Invoked /\ call'.op \in {"set_admin", "batch_transfer", "batch_set_savings_goals"}
           /\ call'.status = "ok") =>
          call'.caller = instance["Admin"]
     /\ (Invoked /\ call'.op \in {"batch_transfer", "batch_set_savings_goals"}
           /\ Has(instance, "Admin") /\ call'.caller = instance["Admin"]
           /\ call'.caller \in call'.signers
           /\ validate_batch_size(Len(call'.items)) = "ok"
           /\ TokenAccepts) =>
          call'.status = "ok"]_vars

C9_Witness ==
  /\ call.op = "set_admin"
  /\ call.status = "ok"
  /\ call.items[1] # call.caller
  /\ instance["Admin"] = call.items[1]
  /\ Len(hist.ids) >= 1

\* C10 as stated: in the conversion contract every allocated batch id is
\* strictly greater than every batch id allocated before.
C10_BatchIdsNeverReused ==
  contract = "conversion" =>
    \A i, j \in 1..Len(hist.ids) : i < j => hist.ids[i] < hist.ids[j]

\* the step is a processed batch_set_savings_goals call all of whose requests
\* failed
AllGoalsFailed ==
  /\ Invoked
  /\ call'.op = "batch_set_savings_goals"
  /\ call'.status = "ok"
  /\ \A i \in 1..Len(call'.result.results) :
       call'.result.results[i].tag = "Failure"

\* C11: a batch_set_savings_goals call that passes the preconditions and in
\* which every request fails still takes a batch id: LastBatchId and
\* TotalBatchesProcessed advance by exactly 1, while LastGoalId,
\* TotalGoalsCreated and the stored goals stay as they were.
C11_AllFailedBatchConsumesId ==
  [][AllGoalsFailed =>
       /\ call'.result.batch_id = get_last_batch_id + 1
       /\ GetOr(instance', "LastBatchId", 0) = get_last_batch_id + 1
       /\ GetOr(instance', "TotalBatchesProcessed", 0) =
            get_total_batches_processed + 1
       /\ GetOr(instance', "LastGoalId", 0) = get_last_goal_id
       /\ GetOr(instance', "TotalGoalsCreated", 0) = get_total_goals_created
       /\ goals' = goals
       /\ user_goals' = user_goals]_vars

C11_Witness ==
  /\ call.op = "batch_set_savings_goals"
  /\ call.status = "ok"
  /\ Len(call.items) >= 2
  /\ call.result.successful = 0
  /\ call.result.failed = Len(call.items)
  /\ get_last_batch_id = 2
  /\ get_last_goal_id >= 1
  /\ DOMAIN goals # {}

\* the persisted counters of the contract a batch operation belongs to
CounterKeys(op) ==
  CASE op = "batch_transfer" ->
         {"TotalBatches", "TotalTransfersProcessed", "TotalVolumeTransferred"}
    [] op = "batch_convert_currency" ->
         {"TotalBatches", "TotalConversionsProcessed", "TotalVolumeConverted"}
    [] op = "batch_set_savings_goals" ->
         {"LastBatchId", "LastGoalId", "TotalGoalsCreated", "TotalBatchesProcessed"}

Min(a, b) == IF a <= b THEN a ELSE b

\* the value a counter has before the call of this step, plus what the call
\* contributes to it
RolledForward(key) ==
  LET before == GetOr(instance, key, 0) IN
  CASE key \in {"TotalBatches", "LastBatchId", "TotalBatchesProcessed"} ->
         before + 1
    [] key \in {"TotalTransfersProcessed", "TotalConversionsProcessed"} ->
         before + Len(call'.items)
    [] key \in {"LastGoalId", "TotalGoalsCreated"} ->
         before + call'.result.successful
    [] key \in {"TotalVolumeTransferred", "TotalVolumeConverted"} ->
         Min(before + call'.result.total, I128_MAX)

\* the writes to instance storage among the host calls of a trace
InstanceWrites(tr) == SelectSeq(tr, LAMBDA e : e.kind = "instance")

\* C12: a processed batch call writes the persisted counters once, at the
\* end: every counter of the contract is written exactly once, after the
\* events of all the items and before batch_completed, with its pre-batch
\* value plus the delta of this batch; no counter is written while the
\* items are processed.
C12_CountersWrittenOnceAtEnd ==
  [][(Invoked /\ call'.op \in CoreBatchOps /\ call'.status = "ok") =>
       \E written \in {InstanceWrites(trace')} :
         /\ Len(written) = Cardinality(CounterKeys(call'.op))
         /\ \A key \in CounterKeys(call'.op) :
              /\ \E i \in 1..Len(written) :
                   /\ written[i].key = key
                   /\ written[i].val = RolledForward(key)
                   /\ written[i].at = Len(events') - 1
              /\ instance'[key] = RolledForward(key)
         /\ events'[Len(events')].topics[2] = "completed"]_vars

C12_Witness ==
  /\ call.op = "batch_set_savings_goals"
  /\ call.status = "ok"
  /\ call.result.successful >= 2
  /\ Len(hist.ids) = 2
  /\ get_last_goal_id > call.result.successful
  /\ \E i \in 1..Len(trace) :
       /\ trace[i].kind = "instance"
       /\ trace[i].key = "LastGoalId"
       /\ trace[i].val = get_last_goal_id
       /\ trace[i].at > 2

\* the batch operations that return an aggregate amount
AggregatingOps == {"batch_convert_currency", "batch_transfer", "batch_allocate_budget"}

\* the i-th request of the last call is reported as a success: by its result
\* entry, or in batch_allocate_budget, which returns no entries, by its event
SucceededAt(i) ==
  IF call.op = "batch_allocate_budget" THEN events[i].topics = <<"budget", "set">>
  ELSE call.result.results[i].tag = "Success"

\* the amount of the i-th request of the last call if it succeeded, else 0
SucceededAmount(i) ==
  IF ~SucceededAt(i) THEN 0
  ELSE IF call.op = "batch_convert_currency" THEN call.items[i].amount_in
  ELSE call.items[i].amount

\* a + b for a, b in 0..cap, stopping at cap
AddUpTo(a, b, cap) == IF a >= cap - b THEN cap ELSE a + b

\* the sum of the amounts of the successful requests lo..hi of the last call,
\* counted up to I128_MAX + 1
RECURSIVE SuccessfulSum(_, _)
SuccessfulSum(lo, hi) ==
  IF lo > hi THEN 0
  ELSE IF lo = hi THEN SucceededAmount(lo)
  ELSE LET mid == (lo + hi) \div 2
       IN AddUpTo(SuccessfulSum(lo, mid), SuccessfulSum(mid + 1, hi), I128_MAX + 1)

Aggregated == call.op \in AggregatingOps /\ call.status = "ok"

\* C13: the aggregate amount of a batch counts the successful requests only:
\* when their amounts add up without overflow, total_converted,
\* total_transferred and total_amount are the sum of the amounts of exactly
\* the requests reported as successes.
C13_AggregateCountsSuccessesOnly ==
  Aggregated =>
    \E sum \in {SuccessfulSum(1, Len(call.items))} :
      sum <= I128_MAX => call.result.total = sum

C13_Witness ==
  /\ Aggregated
  /\ call.op = "batch_convert_currency"
  /\ Len(call.items) = 2
  /\ ~SucceededAt(1)
  /\ call.items[1].amount_in > 0
  /\ SucceededAt(2)
  /\ call.result.total = call.items[2].amount_in

\* C14 as stated: in batch_convert_currency and batch_transfer the returned
\* total is min(sum of the successful requests' amounts, i128::MAX).
C14_AggregateSaturates ==
  (Aggregated /\ call.op # "batch_allocate_budget") =>
    call.result.total = Min(SuccessfulSum(1, Len(call.items)), I128_MAX)

\* the persisted volume counter of the contract
get_total_volume ==
  IF contract = "conversion" THEN GetOr(instance, "TotalVolumeConverted", 0)
  ELSE GetOr(instance, "TotalVolumeTransferred", 0)

SuccessesUpTo(i) ==
  Cardinality({j \in 1..i : call'.result.results[j].tag = "Success"})

\* C16: batch_create_wallets reports Failure with code 1 for an owner who
\* already has a wallet and leaves that wallet as it is, while a new owner in
\* the same batch succeeds and receives the next sequential wallet id; ids
\* are taken by successes only, and total_wallets_created grows by the
\* number of successes.
C16_DuplicateOwnerRejected ==
  [][(Invoked /\ call'.op = "batch_create_wallets" /\ call'.status = "ok") =>
       /\ \A i \in 1..Len(call'.items) :
            LET owner == call'.items[i].owner
                result == call'.result.results[i]
            IN /\ result.owner = owner
               /\ Has(wallets, owner) =>
                    /\ result.tag = "Failure"
                    /\ result.error_code = 1
                    /\ wallets'[owner] = wallets[owner]
               /\ (~Has(wallets, owner)
                     /\ \A j \in 1..(i - 1) : call'.items[j].owner # owner) =>
                    /\ result.tag = "Success"
                    /\ wallets'[owner].owner = owner
                    /\ wallets'[owner].id =
                         get_total_wallets_created + SuccessesUpTo(i)
       /\ get_total_wallets_created' =
            get_total_wallets_created + call'.result.successful
       /\ {wallets'[o].id : o \in DOMAIN wallets' \ DOMAIN wallets} =
            (get_total_wallets_created + 1) ..
              (get_total_wallets_created + call'.result.successful)]_vars

C16_Witness ==
  /\ call.op = "batch_create_wallets"
  /\ call.status = "ok"
  /\ Len(call.items) = 2
  /\ call.result.results[1].tag = "Failure"
  /\ call.result.results[1].error_code = 1
  /\ call.result.results[2].tag = "Success"
  /\ get_wallet(call.items[1].owner).id = 1
  /\ get_wallet(call.items[2].owner).id = 2
  /\ get_total_wallets_created = 2

\* the requests of the call of this step that name the user and succeeded
\* (each request of batch_allocate_budget publishes one event)
BudgetSuccessesOf(user) ==
  {i \in 1..Len(call'.items) :
     /\ call'.items[i].user = user
     /\ events'[i].topics = <<"budget", "set">>}

Last(S) == CHOOSE i \in S : \A j \in S : j <= i

\* C17: budget allocation is last-write-wins.  No user has a budget at
\* deployment; a processed batch_allocate_budget leaves every user with the
\* amount of the user's last successful request of the batch, or, if the
\* batch has none for the user (failed requests included), with the record
\* the user had; nothing else changes a budget.  So get_budget is always the
\* most recent successful request for the user, and none before the first.
C17_BudgetLastWriteWins ==
  /\ \A user \in Addr : ~Has(budgets, user)
  /\ [][IF (Invoked \/ budgets' # budgets)
            /\ call'.op = "batch_allocate_budget" /\ call'.status = "ok"
         THEN \A user \in Addr :
                IF BudgetSuccessesOf(user) = {}
                THEN /\ Has(budgets', user) = Has(budgets, user)
                     /\ Has(budgets, user) => budgets'[user] = budgets[user]
                ELSE /\ Has(budgets', user)
                     /\ budgets'[user].user = user
                     /\ budgets'[user].amount =
                          call'.items[Last(BudgetSuccessesOf(user))].amount
         ELSE budgets' = budgets]_vars

C17_Witness ==
  /\ call.op = "batch_allocate_budget"
  /\ call.status = "ok"
  /\ Len(call.items) = 2
  /\ call.items[1] = [user |-> "a1", amount |-> 3]
  /\ call.items[2] = [user |-> "a2", amount |-> -1]
  /\ get_budget("a1").amount = 3
  /\ Has(budgets, "a2")
  /\ get_budget("a2").amount = 1

\* the sum of the amounts of the successful requests before the i-th of the
\* call of this step
RECURSIVE SucceededBefore(_)
SucceededBefore(i) ==
  IF i <= 1 THEN 0
  ELSE SucceededBefore(i - 1) +
       (IF call'.result.results[i - 1].tag = "Success"
        THEN call'.items[i - 1].amount ELSE 0)

RECURSIVE ConvertedFrom(_, _, _)
ConvertedFrom(user, asset, i) ==
  IF i = 0 THEN 0
  ELSE LET request == call'.items[i]
           counted == /\ call'.result.results[i].tag = "Success"
                      /\ request.user = user
                      /\ request.from_asset = asset
       IN AddUpTo(ConvertedFrom(user, asset, i - 1),
                  IF counted THEN request.amount_in ELSE 0,
                  I128_MAX + 1)

\* C19: batch_convert_currency tracks a running balance: for every user and
\* from-asset, the amount_in of the user's successful requests of one batch
\* add up to at most the user's balance of the asset when the call starts.
C19_ConversionRunningBalance ==
  [][(Invoked /\ call'.op = "batch_convert_currency" /\ call'.status = "ok") =>
       \A user \in Addr, asset \in Assets :
         ConvertedFrom(user, asset, Len(call'.items)) <= balance[<<user, asset>>]]_vars

\* every batch entry point of the modelled contracts
BatchEntryPoints ==
  CoreBatchOps \cup UnboundedBatchOps \cup {"batch_create_wallets"}

\* the require_auth calls of the last invocation
AuthCalls == {k \in 1..Len(trace) : trace[k].kind = "require_auth"}

\* C20: authorization is requested once per batch call and never per item:
\* a processed call of any batch entry point, batch_convert_currency
\* included, has made exactly one require_auth call, however many requests
\* it carries.
C20_OneAuthPerBatch ==
  (call.op \in BatchEntryPoints /\ call.status = "ok") =>
    Cardinality(AuthCalls) = 1

\* C21: in batch_transfer a failure in the execution of a validated request
\* is fatal to the whole call: when the token refuses the transfer of any
\* request, no BatchTransferResult is returned, the persisted counters and
\* the balances are what they were before the call (the transfers of the
\* earlier requests are undone), and no event remains.
C21_TransferRejectionIsFatal ==
  [][(call'.op = "batch_transfer" /\ call'.error \in HostRejections) =>
       /\ call'.status = "panic"
       /\ call'.result = <<>>
       /\ instance' = instance
       /\ balance' = balance
       /\ hist' = hist
       /\ events' = <<>>]_vars

\* the admin holds 3, the first request moved 2 of them, the token refused
\* the second: the recipient holds what it held at deployment
C21_Witness ==
  /\ call.op = "batch_transfer"
  /\ call.status = "panic"
  /\ call.error = HostRejected(2)
  /\ call.caller = "a1"
  /\ call.items = <<[recipient |-> "a2", amount |-> 2],
                    [recipient |-> "a2", amount |-> 1]>>
  /\ balance = InitBalance
  /\ events = <<>>
  /\ get_total_batches = 0

\* C25: goal ids are allocated consecutively in input order.  The j-th
\* successful request of a batch_set_savings_goals call gets the id
\* LastGoalId-before-the-call + j, a failed request takes no id, the call
\* adds exactly the goals with those ids and leaves every earlier goal as it
\* was; the stored goals are at all times numbered 1..LastGoalId, each under
\* its own id, so ids continue across batches without gaps or reuse.
C25_GoalIdsConsecutive ==
  [][/\ contract = "goals" =>
         /\ DOMAIN goals' = 1..get_last_goal_id'
         /\ \A id \in DOMAIN goals' : goals'[id].goal_id = id
     /\ (Invoked /\ call'.op = "batch_set_savings_goals" /\ call'.status = "ok") =>
         /\ \A i \in 1..Len(call'.items) :
              call'.result.results[i].tag = "Success" =>
                call'.result.results[i].goal.goal_id =
                  get_last_goal_id + SuccessesUpTo(i)
         /\ get_last_goal_id' = get_last_goal_id + call'.result.successful
         /\ DOMAIN goals' = DOMAIN goals \cup
              ((get_last_goal_id + 1) ..
                 (get_last_goal_id + call'.result.successful))
         /\ \A id \in DOMAIN goals : goals'[id] = goals[id]]_vars

\* the second batch: its first request failed, its second got id 2
C25_Witness ==
  /\ call.op = "batch_set_savings_goals"
  /\ call.status = "ok"
  /\ call.result.batch_id = 2
  /\ Len(call.items) = 2
  /\ call.result.results[1].tag = "Failure"
  /\ call.result.results[2].tag = "Success"
  /\ call.result.results[2].goal.goal_id = 2
  /\ get_last_goal_id = 2
  /\ DOMAIN goals = {1, 2}

\* the kinds of the per-request events
SuccessKinds == {"success", "created", "set"}

FailureKinds == {"failure", "failed"}

\* the per-request events of the last invocation, in the order published
ItemEvents ==
  SelectSeq(events, LAMBDA e : /\ Len(e.topics) >= 2
                               /\ e.topics[1] \notin {"batch", "notif", "history"}
                               /\ e.topics[2] \in SuccessKinds \cup FailureKinds)

\* the account a per-request event names
EventAccount(e) ==
  IF e.topics[1] = "goal" /\ e.topics[2] = "created" THEN e.data[2] ELSE e.data[1]

\* the account the i-th request of the last call names
RequestAccount(i) ==
  IF call.op = "batch_create_wallets" THEN call.items[i].owner
  ELSE ItemAccount(call.op, call.items[i])

\* the aggregate amount the last call returned
ReturnedAggregate ==
  IF call.op = "batch_set_savings_goals"
  THEN <<call.result.metrics.total_target_amount>>
  ELSE IF call.op = "batch_create_wallets" THEN <<>>
  ELSE <<call.result.total>>

\* C26: event trail ordering: every batch call that passes the preconditions
\* publishes BatchStarted(batch_id, item_count) first, then for each request
\* in input order exactly one success or failure event whose kind matches
\* the request's result, and BatchCompleted(batch_id, successful, failed,
\* aggregate) last, so at least n + 2 events for n requests.
C26_EventTrail ==
  (call.op \in BatchEntryPoints /\ call.status = "ok") =>
    LET n == Len(call.items)
        last == events[Len(events)]
    IN /\ Len(events) >= n + 2
       /\ events[1] = Ev(<<"batch", "started">>, <<call.result.batch_id, n>>)
       /\ last = Ev(<<"batch", "completed", call.result.batch_id>>,
                    <<call.result.successful, call.result.failed>>
                      \o ReturnedAggregate)
       /\ \A k \in 2..(Len(events) - 1) : events[k].topics[1] # "batch"
       /\ Len(ItemEvents) = n
       /\ \A i \in 1..n :
            /\ ItemEvents[i].topics[2] \in SuccessKinds <=> SucceededAt(i)
            /\ EventAccount(ItemEvents[i]) = RequestAccount(i)

\* the payloads of the last call with an empty message, and the others, in
\* input order
EmptyPayloads == SelectSeq(call.items, LAMBDA payload : payload.message = "")

DeliveredPayloads == SelectSeq(call.items, LAMBDA payload : payload.message # "")

\* C29: batch_notify partitions its payloads: successful_count plus the
\* length of failed_addresses is the number of payloads, failed_addresses
\* lists the users of the empty-message payloads in input order with
\* duplicates kept, and the events are one notification for each
\* non-empty-message payload, in input order, and nothing else.
C29_NotifyPartition ==
  (call.op = "batch_notify" /\ call.status = "ok") =>
    /\ call.result.successful_count + Len(call.result.failed_addresses)
         = Len(call.items)
    /\ call.result.failed_addresses =
         [k \in 1..Len(EmptyPayloads) |-> EmptyPayloads[k].user]
    /\ call.result.successful_count = Len(DeliveredPayloads)
    /\ events =
         [k \in 1..Len(DeliveredPayloads) |->
            Ev(<<"notif", DeliveredPayloads[k].user>>,
               <<DeliveredPayloads[k].message>>)]

\* the same user twice with an empty message: listed twice
C29_Witness ==
  /\ call.op = "batch_notify"
  /\ call.status = "ok"
  /\ call.items = <<[user |-> "a2", message |-> ""],
                    [user |-> "a2", message |-> ""]>>
  /\ call.result.failed_addresses = <<"a2", "a2">>
  /\ call.result.successful_count = 0
  /\ events = <<>>

\* the three checks of a goal request, as the limits state them
AmountInRange(request) ==
  MIN_GOAL_AMOUNT <= request.target_amount /\ request.target_amount <= MAX_GOAL_AMOUNT

DeadlineInRange(current_ledger, request) ==
  current_ledger < request.deadline /\ request.deadline <= current_ledger + 31536000

ContributionInRange(request) ==
  0 <= request.initial_contribution
    /\ request.initial_contribution <= request.target_amount

\* C30: validate_goal_request accepts a request iff MIN_GOAL_AMOUNT <=
\* target_amount <= MAX_GOAL_AMOUNT, current ledger < deadline <= current
\* ledger + 31,536,000 and 0 <= initial_contribution <= target_amount; a
\* rejection carries the code of the first failing check in the order
\* amount (0), deadline (1), initial contribution (2).
C30_GoalRequestValidation ==
  (call.op = "validate_goal_request" /\ call.status = "ok") =>
    LET request == call.items[1]
        amount_ok == AmountInRange(request)
        deadline_ok == DeadlineInRange(sequence, request)
        contribution_ok == ContributionInRange(request)
    IN /\ call.result.ok <=> (amount_ok /\ deadline_ok /\ contribution_ok)
       /\ ~call.result.ok =>
            call.result.error_code =
              (IF ~amount_ok THEN 0 ELSE IF ~deadline_ok THEN 1 ELSE 2)

\* amount and deadline both out of range: the code is that of the amount
C30_Witness ==
  /\ call.op = "validate_goal_request"
  /\ call.status = "ok"
  /\ call.items[1].target_amount = MAX_GOAL_AMOUNT + 1
  /\ call.items[1].deadline = sequence + MAX_FUTURE_LEDGERS + 1
  /\ call.items[1].initial_contribution = -1
  /\ ~call.result.ok
  /\ call.result.error_code = 0

\* C27: batch_transfer of batch-payment is all-or-nothing: if any payment
\* of the list has an amount <= 0 the call panics, no balance of the sender
\* or of a recipient changes and no event remains, also when valid payments
\* stand earlier in the list.
C27_PaymentAllOrNothing ==
  [][(/\ call'.op = "batch_payment"
      /\ \E i \in 1..Len(call'.items) : call'.items[i].amount <= 0) =>
       /\ call'.status = "panic"
       /\ call'.result = <<>>
       /\ balance' = balance
       /\ events' = <<>>]_vars

\* a valid payment of 1 stands before the payment of 0: the sender still
\* holds everything
C27_Witness ==
  /\ call.op = "batch_payment"
  /\ call.caller = "a1"
  /\ call.caller \in call.signers
  /\ call.items = <<[recipient |-> "a2", amount |-> 1],
                    [recipient |-> "a2", amount |-> 0]>>
  /\ call.status = "panic"
  /\ call.error = "Payment amount must be positive"
  /\ balance = InitBalance
  /\ events = <<>>

\* the amounts of the payments 1..i of the call of this step, counted up to
\* I128_MAX + 1: all of them, and those addressed to an account
RECURSIVE PaidSum(_)
PaidSum(i) ==
  IF i = 0 THEN 0
  ELSE AddUpTo(PaidSum(i - 1), call'.items[i].amount, I128_MAX + 1)

RECURSIVE PaidTo(_, _)
PaidTo(account, i) ==
  IF i = 0 THEN 0
  ELSE AddUpTo(PaidTo(account, i - 1),
               IF call'.items[i].recipient = account
               THEN call'.items[i].amount ELSE 0,
               I128_MAX + 1)

\* what the payments 1..i of the call of this step add to an account: each
\* payment gives its amount to the recipient and takes it from the sender
RECURSIVE NetChange(_, _)
NetChange(account, i) ==
  IF i = 0 THEN 0
  ELSE NetChange(account, i - 1)
       + (IF call'.items[i].recipient = account THEN call'.items[i].amount ELSE 0)
       - (IF call'.caller = account THEN call'.items[i].amount ELSE 0)

PaymentReturned ==
  Invoked /\ call'.op = "batch_payment" /\ call'.status = "ok"

\* C28 as stated: a successful batch_transfer of batch-payment lowers the
\* sender's balance by the sum of all payment amounts, raises each
\* recipient's balance by the sum of the amounts addressed to it, and the
\* batch-complete event reports the number of payments and that sum.
C28_PaymentConservesTokens ==
  [][PaymentReturned =>
       LET n == Len(call'.items)
           from == call'.caller
       IN /\ AddUpTo(balance'[<<from, PaymentToken>>], PaidSum(n), I128_MAX + 1)
               = balance[<<from, PaymentToken>>]
          /\ \A i \in 1..n :
               LET to == call'.items[i].recipient
               IN balance'[<<to, PaymentToken>>] =
                    AddUpTo(balance[<<to, PaymentToken>>], PaidTo(to, n),
                            I128_MAX + 1)
          /\ events'[Len(events')] =
               Ev(<<"batch", "complete", sequence>>, <<n, PaidSum(n)>>)]_vars

\* C28, amended: a successful batch_transfer of batch-payment changes the
\* balance of every account by what the payments address to it minus, for
\* the sender, the sum of all payments (a payment of the sender to itself
\* leaves its balance as it is), touches no other token, publishes one
\* payment event per payment in input order, and the batch-complete event
\* reports the number of payments and, when it does not exceed i128::MAX,
\* their sum.
C28_PaymentNetConservation ==
  [][PaymentReturned =>
       LET n == Len(call'.items)
       IN /\ \A account \in Addr :
               balance'[<<account, PaymentToken>>] =
                 balance[<<account, PaymentToken>>] + NetChange(account, n)
          /\ \A account \in Addr, asset \in Assets \ {PaymentToken} :
               balance'[<<account, asset>>] = balance[<<account, asset>>]
          /\ Len(events') = n + 1
          /\ \A i \in 1..n :
               events'[i] = Ev(<<"payment", sequence, call'.items[i].recipient>>,
                               <<PaymentToken, call'.items[i].amount>>)
          /\ events'[n + 1].topics = <<"batch", "complete", sequence>>
          /\ events'[n + 1].data[1] = n
          /\ PaidSum(n) <= I128_MAX => events'[n + 1].data[2] = PaidSum(n)]_vars

\* a1 pays 1 to a2 and its whole balance to itself: a2 holds 1 more, a1 1
\* less, and the event reports both payments and their sum
C28_Witness ==
  /\ call.op = "batch_payment"
  /\ call.status = "ok"
  /\ call.caller = "a1"
  /\ call.items = <<[recipient |-> "a2", amount |-> 1],
                    [recipient |-> "a1", amount |-> I128_MAX - 2]>>
  /\ balance[<<"a1", PaymentToken>>] = I128_MAX - 2
  /\ balance[<<"a2", PaymentToken>>] = 1
  /\ events[3].data = <<2, I128_MAX - 1>>

\* the recommendations the contract has stored, batch by batch
StoredOutputs ==
  UNION {{recommendations[batch_id][i].rec :
            i \in DOMAIN recommendations[batch_id]} :
         batch_id \in DOMAIN recommendations}

\* the recommendations the last invocation returned
ReturnedOutputs ==
  IF call.status # "ok" THEN {}
  ELSE IF call.op = "simulate_recommendation" THEN {call.result[1]}
  ELSE IF call.op = "generate_batch_recommendations"
  THEN {call.result.results[i].rec : i \in DOMAIN call.result.results}
  ELSE {}

BandRank(risk_tolerance) ==
  IF risk_tolerance \in 1..2 THEN 1
  ELSE IF risk_tolerance = 3 THEN 2
  ELSE 3

ProcessedCounter ==
  IF contract = "transfer" THEN get_total_transfers_processed
  ELSE get_total_conversions_processed

C32_ConversionValidationOrder ==
  (call.op = "conversion_validated" /\ call.status = "ok") =>
    LET request == call.items[1]
        v == call.result.validated[1]
        r == call.result.results[1]
        bad_amount == request.amount_in <= 0
        bad_output == request.min_amount_out <= 0
        same_asset == request.from_asset = request.to_asset
    IN /\ Len(call.result.results) = 1
       /\ ~v.is_valid <=> (bad_amount \/ bad_output \/ same_asset)
       /\ ~v.is_valid =>
            /\ r.tag = "Failure"
            /\ r.last = v.error_code
            /\ r.last = IF bad_amount THEN 3 ELSE IF bad_output THEN 4 ELSE 5
       /\ v.is_valid => (r.tag = "Success" \/ r.last \notin {3, 4, 5})

\* a positive amount with no minimum output between equal assets: the
\* second and the third check fail, the code is that of the second
C32_Witness ==
  /\ call.op = "conversion_validated"
  /\ call.status = "ok"
  /\ call.items[1].amount_in = 1
  /\ call.items[1].min_amount_out = 0
  /\ call.items[1].from_asset = call.items[1].to_asset
  /\ call.result.results[1].tag = "Failure"
  /\ call.result.results[1].last = 4

\* the i-th request of the last batch_convert_currency passes validation
\* and asks for more than its user holds of the from-asset
Uncovered(i) ==
  /\ PassesValidation("batch_convert_currency", call.items[i])
  /\ balance[<<call.items[i].user, call.items[i].from_asset>>]
       < call.items[i].amount_in

\* C33: a conversion request that passes validation and exceeds its user's
\* balance of the from-asset is an item-level failure: a call of an accepted
\* size that every user signed returns; in a call that returns, such an item
\* is recorded as Failure with code 6 and counted in failed, every item has
\* its result, and total_converted is the sum over the successful items only.
C33_InsufficientBalanceIsItemFailure ==
  call.op = "batch_convert_currency" =>
    /\ (validate_batch_size(Len(call.items)) = "ok" /\ call.signers = Addr) =>
         call.status = "ok"
    /\ call.status = "ok" =>
         /\ Len(call.result.results) = Len(call.items)
         /\ \A i \in 1..Len(call.items) :
              Uncovered(i) =>
                /\ call.result.results[i].tag = "Failure"
                /\ call.result.results[i].last = 6
         /\ call.result.failed =
              Cardinality({i \in 1..Len(call.items) :
                             call.result.results[i].tag = "Failure"})
         /\ call.result.failed >=
              Cardinality({i \in 1..Len(call.items) : Uncovered(i)})
         /\ \E sum \in {SuccessfulSum(1, Len(call.items))} :
              sum <= I128_MAX => call.result.total = sum

\* a2 asks to convert 2 x and holds 1; a1's conversion after it succeeds
C33_Witness ==
  /\ call.op = "batch_convert_currency"
  /\ call.status = "ok"
  /\ Len(call.items) = 2
  /\ Uncovered(1)
  /\ call.items[1].amount_in = 2
  /\ call.result.results[1].tag = "Failure"
  /\ call.result.results[1].last = 6
  /\ call.result.results[2].tag = "Success"
  /\ call.result.failed = 1
  /\ call.result.successful = 1
  /\ call.result.total = call.items[2].amount_in

\* the positions of the high-value events among the events published
HighValueEvents ==
  {k \in 1..Len(events) : events[k].topics[1] = "goal"
                          /\ events[k].topics[2] = "highval"}

\* the requests of the loop that were created with a high-value target
HighValueGoals ==
  {i \in 1..Len(call.items) :
     /\ call.result.results[i].tag = "Success"
     /\ call.items[i].target_amount >= HIGH_VALUE_GOAL}

C35_GoalCountersAgree ==
  contract = "goals" =>
    /\ get_last_batch_id = get_total_batches_processed
    /\ get_last_goal_id = get_total_goals_created
    /\ get_last_batch_id = Len(hist.ids)
    /\ get_last_goal_id = hist.successes

\* two goals from batch 1, then a batch with a rejected and a created goal
C35_Witness ==
  /\ contract = "goals"
  /\ call.op = "batch_set_savings_goals"
  /\ call.status = "ok"
  /\ call.result.failed = 1
  /\ call.result.successful = 1
  /\ get_last_batch_id = 2
  /\ get_total_batches_processed = 2
  /\ get_last_goal_id = 3
  /\ get_total_goals_created = 3

\* C36: stored goals are dense and write-once.  After every step get_goal
\* returns, for each id of 1..get_last_goal_id, a goal whose goal_id is that
\* id, and nothing for any other id; and a goal that is stored is, after
\* any later call, still stored and equal in every field.
C36_GoalsDenseWriteOnce ==
  [][contract = "goals" =>
       /\ \A id \in 1..(get_last_goal_id' + 1) :
            IF id <= get_last_goal_id'
            THEN Has(goals', id) /\ get_goal(id)'.goal_id = id
            ELSE ~Has(goals', id)
       /\ DOMAIN goals' \subseteq 1..get_last_goal_id'
       /\ \A id \in DOMAIN goals :
            Has(goals', id) /\ get_goal(id)' = get_goal(id)]_vars

\* goal 1 of the batch at ledger 0 is as it was after the batch of 100
\* goals at ledger 1
C36_Witness ==
  /\ contract = "goals"
  /\ call.op = "batch_set_savings_goals"
  /\ call.status = "ok"
  /\ Len(hist.ids) = 2
  /\ get_last_goal_id = MAX_BATCH_SIZE + 1
  /\ Has(goals, 1) /\ Has(goals, MAX_BATCH_SIZE + 1)
  /\ ~Has(goals, MAX_BATCH_SIZE + 2)
  /\ get_goal(1).goal_id = 1
  /\ get_goal(1).created_at = 0
  /\ get_goal(MAX_BATCH_SIZE + 1).goal_id = MAX_BATCH_SIZE + 1
  /\ get_goal(MAX_BATCH_SIZE + 1).created_at = 1

\* the ids in a user's list
ListedIds(user) ==
  {get_user_goals(user)[k] : k \in 1..Len(get_user_goals(user))}

\* C37: the per-user goal index agrees with the stored goals.  In every
\* reachable state get_user_goals(u) holds exactly the ids of the stored
\* goals whose user is u, each once and in strictly increasing order, only
\* the users of stored goals have a list, and every stored goal id is in
\* the list of exactly one user.
C37_UserGoalsIndex ==
  contract = "goals" =>
    /\ DOMAIN user_goals \subseteq Addr
    /\ \A user \in Addr :
         /\ ListedIds(user) = {id \in DOMAIN goals : goals[id].user = user}
         /\ \A k \in 1..(Len(get_user_goals(user)) - 1) :
              get_user_goals(user)[k] < get_user_goals(user)[k + 1]
    /\ \A id \in DOMAIN goals :
         Cardinality({user \in Addr : id \in ListedIds(user)}) = 1

\* two goals of a1, then a batch of 100 goals of a2
C37_Witness ==
  /\ contract = "goals"
  /\ Len(hist.ids) = 2
  /\ get_user_goals("a1") = <<1, 2>>
  /\ Len(get_user_goals("a2")) = MAX_BATCH_SIZE
  /\ get_user_goals("a2")[1] = 3
  /\ get_user_goals("a2")[MAX_BATCH_SIZE] = MAX_BATCH_SIZE + 2
  /\ get_goal(2).user = "a1"
  /\ get_goal(3).user = "a2"

\* the limits of a stored goal
GoalWithinLimits(goal) ==
  /\ MIN_GOAL_AMOUNT <= goal.target_amount
  /\ goal.target_amount <= MAX_GOAL_AMOUNT
  /\ 0 <= goal.current_amount
  /\ goal.current_amount <= goal.target_amount
  /\ goal.created_at < goal.deadline
  /\ goal.deadline <= goal.created_at + 31536000
  /\ goal.is_active = TRUE

\* C38: every stored savings goal has MIN_GOAL_AMOUNT <= target_amount <=
\* MAX_GOAL_AMOUNT, 0 <= current_amount <= target_amount, created_at <
\* deadline <= created_at + 31,536,000 and is_active = true, in every
\* reachable state.
C38_StoredGoalWithinLimits ==
  \A goal_id \in DOMAIN goals : GoalWithinLimits(goals[goal_id])

\* the largest goal with the latest deadline, fully funded, stored at
\* ledger 1
C38_Witness ==
  /\ call.op = "goals_run"
  /\ call.status = "ok"
  /\ sequence = 1
  /\ Has(goals, 1)
  /\ get_goal(1).target_amount = MAX_GOAL_AMOUNT
  /\ get_goal(1).current_amount = MAX_GOAL_AMOUNT
  /\ get_goal(1).created_at = 1
  /\ get_goal(1).deadline = 1 + 31536000
  /\ get_goal(1).is_active

\* the exact sum of the targets of the goals created by requests 1..i
RECURSIVE TargetsCreated(_)
TargetsCreated(i) ==
  IF i = 0 THEN 0
  ELSE TargetsCreated(i - 1) +
       (IF call.result.results[i].tag = "Success"
        THEN call.items[i].target_amount ELSE 0)

\* the exact sum of the initial contributions of the goals created by
\* requests 1..i
RECURSIVE ContributionsCreated(_)
ContributionsCreated(i) ==
  IF i = 0 THEN 0
  ELSE ContributionsCreated(i - 1) +
       (IF call.result.results[i].tag = "Success"
        THEN call.items[i].initial_contribution ELSE 0)

\* C39: in the request loop of batch_set_savings_goals the overflow
\* fallback is never taken: for a batch of at most MAX_BATCH_SIZE requests
\* total_target_amount and total_initial_contributions are the exact sums
\* over the goals created, both below i128::MAX, and
\* total_initial_contributions <= total_target_amount.
C39_GoalTotalsExact ==
  (call.op = "goals_run" /\ call.status = "ok"
     /\ Len(call.items) <= MAX_BATCH_SIZE) =>
    /\ call.result.total_target_amount # I128_MAX
    /\ call.result.total_initial_contributions # I128_MAX
    /\ call.result.total_target_amount = TargetsCreated(Len(call.items))
    /\ call.result.total_initial_contributions =
         ContributionsCreated(Len(call.items))
    /\ call.result.total_initial_contributions <=
         call.result.total_target_amount
    /\ call.result.total_target_amount <= MAX_BATCH_SIZE * MAX_GOAL_AMOUNT

\* the largest batch of the largest goals, fully funded
C39_Witness ==
  /\ call.op = "goals_run"
  /\ call.status = "ok"
  /\ call.items = LargestGoals
  /\ call.result.successful = MAX_BATCH_SIZE
  /\ call.result.total_target_amount = MAX_BATCH_SIZE * MAX_GOAL_AMOUNT
  /\ call.result.total_initial_contributions = MAX_BATCH_SIZE * MAX_GOAL_AMOUNT
  /\ MAX_BATCH_SIZE * MAX_GOAL_AMOUNT < I128_MAX

\* the positions of the requests of the call of this step that name the
\* owner and succeeded
CreatedFor(owner) ==
  {i \in 1..Len(call'.items) : /\ call'.items[i].owner = owner
                               /\ call'.result.results[i].tag = "Success"}

====
